---- MODULE Spec2Model ----
(***************************************************************************)
(* BoulderBody web application: session lifecycle over the localStorage    *)
(* session store.                                                          *)
(*                                                                         *)
(* The store is the text kept under the key 'boulderbody_sessions'; it is  *)
(* shared by every browser tab of the application.  Each tab (a "view" of  *)
(* the model) shows one page of the router (StartView, ActiveSessionView,  *)
(* TrainingSessionView, SummaryView) and keeps that page's React state,    *)
(* in particular its own in-memory copy of a session.  Every event handler *)
(* runs to completion (JavaScript is single threaded and localStorage is   *)
(* synchronous), so one handler is one action.  The countdowns of the     *)
(* RestTimer components run in units of 500 ms (action Elapse): their      *)
(* setInterval fires every second and their completion callback half a     *)
(* second after the countdown reached zero.                                *)
(*                                                                         *)
(* Values.  An instant is <<"Date", t>> in memory and <<"ISO", t>> once    *)
(* JSON.stringify has turned it into an ISO-8601 string; an absent instant *)
(* is Undefined.  Absent text fields hold the string "undefined".  Weights *)
(* are in tenths of a kilogram.  An instant t is a number of clock ticks,  *)
(* TicksPerDay of them to the day (milliseconds in the program).           *)
(***************************************************************************)
EXTENDS Integers, Sequences, FiniteSets, TLC

\* The browser tabs that have the application open.
Views == {"A", "B"}

\* Bounds of the model.
MaxClock == 5        \* instants at which a handler runs
MaxSessions == 2     \* sessions created by handleStartSession
MaxBoulders == 2     \* largest number typed into "Number of Boulders"
MaxHistory == 2      \* sessions of a stored history drawn as a whole
NumSets == 1         \* sets per exercise (TRAINING_PROTOCOL has 5 of each)

\* StorageManager.ts
CURRENT_VERSION == 2

-----------------------------------------------------------------------------
(* Values *)

Undefined == <<>>
Date(t) == <<"Date", t>>
ISO(t) == <<"ISO", t>>
\* JSON null, and the Date whose time value is NaN
Null == <<"null">>
InvalidDate == <<"Invalid Date">>

IsDate(x) == x # Undefined /\ x[1] = "Date"
IsISO(x) == x # Undefined /\ x[1] = "ISO"

\* Date.prototype.toJSON as used by JSON.stringify: a Date becomes its ISO
\* string (null when its time value is NaN), a string stays a string,
\* undefined stays absent.
ToJSON(x) ==
  IF IsDate(x) THEN ISO(x[2])
  ELSE IF x = InvalidDate THEN Null
  ELSE x

\* new Date(data.f): new Date(undefined) is an invalid Date, new Date(null)
\* is the epoch.
NewDate(x) ==
  IF x = Undefined THEN InvalidDate
  ELSE IF x = Null THEN Date(0)
  ELSE Date(x[2])

\* data.f ? new Date(data.f) : undefined
ReviveOptional(x) == IF x \in {Undefined, Null} THEN Undefined ELSE NewDate(x)

Exercises == <<"hang", "pullup", "bench", "trapbar">>
SetsField(ex) ==
  CASE ex = "hang" -> "hangSets"
    [] ex = "pullup" -> "pullupSets"
    [] ex = "bench" -> "benchSets"
    [] ex = "trapbar" -> "trapBarSets"

\* r.f ?? default: field f of r, default when r has no such field.
OrElse(r, f, default) == IF f \in DOMAIN r THEN r[f] ELSE default

MapSeq(seq, Op(_)) == [i \in 1..Len(seq) |-> Op(seq[i])]

\* Array.prototype.filter
FilterSeq(seq, Keep(_)) == SelectSeq(seq, Keep)

\* Array.prototype.findIndex: the first index whose element satisfies the
\* test, 0 when there is none (JavaScript's -1).
FindIndex(seq, Test(_)) ==
  IF \E i \in 1..Len(seq) : Test(seq[i])
  THEN CHOOSE i \in 1..Len(seq) :
         Test(seq[i]) /\ \A j \in 1..(i - 1) : ~Test(seq[j])
  ELSE 0

-----------------------------------------------------------------------------
(* State *)

VARIABLES
  store,              \* localStorage['boulderbody_sessions']
  clock,              \* the value the next new Date() returns
  nextId,             \* the session id the next crypto.randomUUID() returns
  page,               \* page[v]: the route component mounted in tab v
  session,            \* session[v]: the `session` state of that component
  sessions,           \* sessions[v]: StartView's `sessions` state (history)
  showFinishConfirm,  \* showFinishConfirm[v]
  timer,              \* timer[v]: TrainingSessionView's timer state
  thrown,             \* thrown[v]: the error the tab's last handler threw
  form,               \* form[v]: StartView's level / boulderCount / weight state
  setItemError,       \* name of the exception localStorage.setItem throws
  countdown,          \* countdown[v]: state of the three RestTimer components
  timeouts            \* timeouts[v]: pending setTimeout(onComplete, 500) calls

vars == <<store, clock, nextId, page, session, sessions, showFinishConfirm,
          timer, thrown, form, setItemError, countdown, timeouts>>

-----------------------------------------------------------------------------
(* StorageManager.ts: serialisation *)

StringifyItem(a) == [a EXCEPT !.timestamp = ToJSON(@)]

\* A field the object does not have is not written.
StringifyTrainingData(td) ==
  [f \in DOMAIN td |->
     IF f \in {"hangSets", "pullupSets", "benchSets", "trapBarSets"}
     THEN MapSeq(td[f], StringifyItem)
     ELSE td[f]]

\* JSON.stringify of one session: every Date anywhere in the object is
\* written as its ISO string.
StringifySession(s) ==
  LET base == [s EXCEPT !.date = ToJSON(@), !.startTime = ToJSON(@),
                        !.endTime = ToJSON(@)]
  IN IF s.sessionType = "training"
     THEN [base EXCEPT !.trainingData = StringifyTrainingData(@)]
     ELSE [base EXCEPT !.attempts = MapSeq(@, StringifyItem)]

ReviveItem(a) == [a EXCEPT !.timestamp = ReviveOptional(@)]

deserializeSession(data) ==
  IF data.sessionType = "training"
  THEN [data EXCEPT !.date = NewDate(@), !.startTime = NewDate(@),
                    !.endTime = ReviveOptional(@),
                    !.trainingData.hangSets = MapSeq(@, ReviveItem),
                    !.trainingData.pullupSets = MapSeq(@, ReviveItem)]
  ELSE [data EXCEPT !.date = NewDate(@), !.startTime = NewDate(@),
                    !.endTime = ReviveOptional(@),
                    !.attempts = MapSeq(@, ReviveItem)]

\* migrateOne that makes every session a volume session
migrateOneForceVolume(s) == [s EXCEPT !.sessionType = "volume"]

migrateOne(s) ==
  [s EXCEPT !.sessionType = IF @ = "undefined" THEN "volume" ELSE @]

\* migrateV1toV2 that leaves the version number as it was
migrateV1toV2KeepVersion(data) ==
  [kind |-> "json", version |-> data.version,
   sessions |-> MapSeq(data.sessions, migrateOne)]

migrateV1toV2(data) ==
  [kind |-> "json", version |-> 2, sessions |-> MapSeq(data.sessions, migrateOne)]

\* The stored item: absent, the text of {version, sessions}, or text that is
\* not such a payload: Unparsable makes JSON.parse throw, Malformed parses to
\* an object without a sessions array (data.sessions.map throws).
NoItem == [kind |-> "null"]
Unparsable == [kind |-> "unparsable"]
Malformed == [kind |-> "malformed"]

NeedsMigration(st) == st.kind = "json" /\ st.version < CURRENT_VERSION

\* `data` when getAllSessions reaches its return statement.
Migrated(st) == IF NeedsMigration(st) THEN migrateV1toV2(st) ELSE st

\* localStorage.setItem throws.
Rejects == setItemError # "none"

\* StoreAfterRead whose write-back of the migration always succeeds
StoreAfterReadAlways(st) == Migrated(st)

\* The store once getAllSessions has returned: the migrated payload is
\* written back unless setItem throws, which is caught and logged.
StoreAfterRead(st) == IF Rejects THEN st ELSE Migrated(st)

\* deserializeSession throws a TypeError on data: the array it calls .map on
\* is absent.
DeserializeThrows(data) ==
  IF data.sessionType = "training"
  THEN \/ "trainingData" \notin DOMAIN data
       \/ "hangSets" \notin DOMAIN data.trainingData
       \/ "pullupSets" \notin DOMAIN data.trainingData
  ELSE "attempts" \notin DOMAIN data

\* getAllSessions that leaves out the records deserializeSession throws on
getAllSessionsSkipping(st) ==
  IF st.kind # "json" THEN <<>>
  ELSE MapSeq(SelectSeq(Migrated(st).sessions,
                        LAMBDA data : ~DeserializeThrows(data)),
              deserializeSession)

\* Whatever is thrown inside the outer try is caught and [] returned.
getAllSessions(st) ==
  IF st.kind # "json" THEN <<>>
  ELSE IF \E i \in 1..Len(Migrated(st).sessions) :
            DeserializeThrows(Migrated(st).sessions[i])
  THEN <<>>
  ELSE MapSeq(Migrated(st).sessions, deserializeSession)

\* SaveError that never tells a full store from an unavailable one
SaveErrorGeneric == "StorageUnavailable"

\* The message saveAllSessions throws when setItem throws.
SaveError ==
  IF setItemError = "QuotaExceededError" THEN "QuotaExceeded"
  ELSE "StorageUnavailable"

saveAllSessions(list) ==
  [kind |-> "json", version |-> CURRENT_VERSION,
   sessions |-> MapSeq(list, StringifySession)]

HasId(list, id) == \E i \in 1..Len(list) : list[i].id = id

\* saveSession, updateSession and deleteSession give the store they leave
\* behind when setItem accepts the write; updateSession and deleteSession
\* throw when HasId fails, and then only the write-back of a migration has
\* happened.
saveSession(st, s) == saveAllSessions(Append(getAllSessions(st), s))

\* updateSession that keeps the stored attempts which the session passed in
\* holds as not logged
updateSessionMerging(st, s) ==
  LET list == getAllSessions(st)
      index == FindIndex(list, LAMBDA x : x.id = s.id)
      merged ==
        IF s.sessionType = "volume" /\ list[index].sessionType = "volume"
           /\ Len(list[index].attempts) = Len(s.attempts)
        THEN [s EXCEPT !.attempts =
                [i \in 1..Len(s.attempts) |->
                   IF s.attempts[i].result = "undefined"
                   THEN list[index].attempts[i] ELSE s.attempts[i]]]
        ELSE s
  IN IF index = 0 THEN StoreAfterRead(st)
     ELSE saveAllSessions([list EXCEPT ![index] = merged])

\* updateSession that overwrites the first stored session
updateSessionFirst(st, s) ==
  LET list == getAllSessions(st)
      index == FindIndex(list, LAMBDA x : x.id = s.id)
  IN IF index = 0 THEN StoreAfterRead(st)
     ELSE saveAllSessions([list EXCEPT ![1] = s])

updateSession(st, s) ==
  LET list == getAllSessions(st)
      index == FindIndex(list, LAMBDA x : x.id = s.id)
  IN IF index = 0 THEN StoreAfterRead(st)
     ELSE saveAllSessions([list EXCEPT ![index] = s])

\* deleteSession that clears the whole collection
deleteSessionAll(st, id) ==
  LET list == getAllSessions(st)
      filtered == FilterSeq(list, LAMBDA x : x.id # id)
  IN IF Len(filtered) = Len(list) THEN StoreAfterRead(st)
     ELSE saveAllSessions(<<>>)

deleteSession(st, id) ==
  LET list == getAllSessions(st)
      filtered == FilterSeq(list, LAMBDA x : x.id # id)
  IN IF Len(filtered) = Len(list) THEN StoreAfterRead(st)
     ELSE saveAllSessions(filtered)

\* NotFound when updateSession / deleteSession never throw
NotFoundNever(st, id) == FALSE

NotFound(st, id) == ~HasId(getAllSessions(st), id)

\* The error updateSession(s) / deleteSession(id) throws for id, "none" when
\* it returns.
WriteError(st, id) ==
  IF NotFound(st, id) THEN "NotFound"
  ELSE IF Rejects THEN SaveError
  ELSE "none"

NoSession == [id |-> 0]

Find(list, Test(_)) ==
  LET index == FindIndex(list, Test)
  IN IF index = 0 THEN NoSession ELSE list[index]

getCurrentSession(st) == Find(getAllSessions(st), LAMBDA s : ~s.isFinished)


getById(st, id) == Find(getAllSessions(st), LAMBDA s : s.id = id)

\* models/Session.ts
isVolumeSession(s) == s.sessionType = "volume"
isTrainingSession(s) == s.sessionType = "training"

\* getTime() of a Date
GetTime(d) == d[2]

\* Array.prototype.sort((a, b) => b.date.getTime() - a.date.getTime()): the
\* sort is stable, so sessions of equal date keep their order.
\* SortByDateDesc that moves a session behind the later ones of its date
RECURSIVE SortByDateDescUnstable(_)
SortByDateDescUnstable(list) ==
  IF Len(list) <= 1 THEN list
  ELSE LET x == Head(list)
           rest == SortByDateDescUnstable(Tail(list))
           k == Cardinality({i \in 1..Len(rest) :
                               GetTime(rest[i].date) >= GetTime(x.date)})
       IN SubSeq(rest, 1, k) \o <<x>> \o SubSeq(rest, k + 1, Len(rest))

RECURSIVE SortByDateDesc(_)
SortByDateDesc(list) ==
  IF Len(list) <= 1 THEN list
  ELSE LET x == Head(list)
           rest == SortByDateDesc(Tail(list))
           k == Cardinality({i \in 1..Len(rest) :
                               GetTime(rest[i].date) > GetTime(x.date)})
       IN SubSeq(rest, 1, k) \o <<x>> \o SubSeq(rest, k + 1, Len(rest))

\* getLastVolumeSession that takes unfinished sessions too
getLastVolumeSessionAny(st) ==
  LET volumeSessions == SelectSeq(getAllSessions(st), isVolumeSession)
  IN IF Len(volumeSessions) = 0 THEN NoSession
     ELSE SortByDateDesc(volumeSessions)[1]

getLastVolumeSession(st) ==
  LET volumeFinished ==
        SelectSeq(getAllSessions(st),
                  LAMBDA s : isVolumeSession(s) /\ s.isFinished)
  IN IF Len(volumeFinished) = 0 THEN NoSession
     ELSE SortByDateDesc(volumeFinished)[1]

getLastTrainingSession(st) ==
  LET trainingFinished ==
        SelectSeq(getAllSessions(st),
                  LAMBDA s : isTrainingSession(s) /\ s.isFinished)
  IN IF Len(trainingFinished) = 0 THEN NoSession
     ELSE SortByDateDesc(trainingFinished)[1]

-----------------------------------------------------------------------------
(* SessionRecommender.ts, TrainingRecommender.ts *)

\* Clock ticks in 1000 * 60 * 60 * 24 ms.
TicksPerDay == 2

\* A percentage is the fraction <<n, d>>, d > 0, so that no rounding is
\* modelled; Below / Above compare it with a whole number.
\* Below that also holds of p itself
AtMost(rate, p) == rate[1] <= p * rate[2]

Below(rate, p) == rate[1] < p * rate[2]
Above(rate, p) == rate[1] > p * rate[2]

\* getFailRate that leaves the attempts never logged out of the count
getFailRateLoggedOnly(s) ==
  LET failCount ==
        Cardinality({i \in 1..Len(s.attempts) : s.attempts[i].result = "fail"})
  IN IF s.boulderCount = 0 THEN <<0, 1>>
     ELSE IF s.boulderCount > 0 THEN <<failCount * 100, s.boulderCount>>
     ELSE <<-(failCount * 100), -s.boulderCount>>

\* getFailRate: (failCount / boulderCount) * 100
getFailRate(s) ==
  LET failCount ==
        Cardinality({i \in 1..Len(s.attempts) :
                       s.attempts[i].result \in {"fail", "undefined"}})
  IN IF s.boulderCount = 0 THEN <<0, 1>>
     ELSE IF s.boulderCount > 0 THEN <<failCount * 100, s.boulderCount>>
     ELSE <<-(failCount * 100), -s.boulderCount>>

\* DEFAULT_RECOMMENDATION of ten boulders
DefaultRecommendationTen == [level |-> 5, boulderCount |-> 10]

DEFAULT_RECOMMENDATION == [level |-> 5, boulderCount |-> 20]

\* DaysSince that counts a started day as a whole one
DaysSinceRoundedUp(lastSession, now) ==
  (now - GetTime(lastSession.date) + TicksPerDay - 1) \div TicksPerDay

\* Math.floor((Date.now() - lastSession.date.getTime()) / one day)
DaysSince(lastSession, now) == (now - GetTime(lastSession.date)) \div TicksPerDay

\* getRecommendation that returns the level as the adjustments leave it
getRecommendationNoClamp(lastSession, now) ==
  IF lastSession = NoSession THEN DEFAULT_RECOMMENDATION
  ELSE LET failRate == getFailRate(lastSession)
           level1 == IF Below(failRate, 25) THEN lastSession.targetLevel + 1
                     ELSE IF Above(failRate, 75) THEN lastSession.targetLevel - 1
                     ELSE lastSession.targetLevel
           daysSinceLastSession == DaysSince(lastSession, now)
           level2 == IF daysSinceLastSession > 14 THEN level1 - 2
                     ELSE IF daysSinceLastSession >= 8 THEN level1 - 1
                     ELSE level1
       IN [level |-> level2, boulderCount |-> lastSession.boulderCount]

\* getRecommendation without its `reason` text; now is Date.now().
getRecommendation(lastSession, now) ==
  IF lastSession = NoSession THEN DEFAULT_RECOMMENDATION
  ELSE LET failRate == getFailRate(lastSession)
           level1 == IF Below(failRate, 25) THEN lastSession.targetLevel + 1
                     ELSE IF Above(failRate, 75) THEN lastSession.targetLevel - 1
                     ELSE lastSession.targetLevel
           daysSinceLastSession == DaysSince(lastSession, now)
           level2 == IF daysSinceLastSession > 14 THEN level1 - 2
                     ELSE IF daysSinceLastSession >= 8 THEN level1 - 1
                     ELSE level1
           level == IF level2 < 1 THEN 1 ELSE level2
       IN [level |-> level, boulderCount |-> lastSession.boulderCount]

DEFAULT_WEIGHT == 0
DEFAULT_BENCH_WEIGHT == 100
DEFAULT_TRAPBAR_WEIGHT == 200
WEIGHT_INCREMENT == 25

\* models/SessionType.ts
\* isExerciseComplete that holds of an exercise without sets
isExerciseCompleteVacuous(sets) == \A i \in 1..Len(sets) : sets[i].completed

\* !!sets && sets.length > 0 && sets.every((s) => s.completed); an absent
\* sequence is passed as Undefined.
isExerciseComplete(sets) ==
  sets # Undefined /\ Len(sets) > 0 /\ \A i \in 1..Len(sets) : sets[i].completed

\* getTrainingRecommendation without its `reason` text.
getTrainingRecommendation(lastTrainingSession) ==
  IF lastTrainingSession = NoSession
  THEN [hangWeight |-> DEFAULT_WEIGHT, pullupWeight |-> DEFAULT_WEIGHT,
        benchWeight |-> DEFAULT_BENCH_WEIGHT,
        trapBarWeight |-> DEFAULT_TRAPBAR_WEIGHT]
  ELSE LET trainingData == lastTrainingSession.trainingData
           hangComplete == isExerciseComplete(trainingData.hangSets)
           pullupComplete == isExerciseComplete(trainingData.pullupSets)
           benchComplete ==
             isExerciseComplete(OrElse(trainingData, "benchSets", Undefined))
           trapBarComplete ==
             isExerciseComplete(OrElse(trainingData, "trapBarSets", Undefined))
           Progress(complete, weight) ==
             IF complete THEN weight + WEIGHT_INCREMENT ELSE weight
       IN [hangWeight |-> Progress(hangComplete, trainingData.hangWeight),
           pullupWeight |-> Progress(pullupComplete, trainingData.pullupWeight),
           benchWeight |->
             Progress(benchComplete,
                      OrElse(trainingData, "benchWeight", DEFAULT_BENCH_WEIGHT)),
           trapBarWeight |->
             Progress(trapBarComplete,
                      OrElse(trainingData, "trapBarWeight",
                             DEFAULT_TRAPBAR_WEIGHT))]

\* StartView's form state after setLevel ... setTrapBarWeight with the two
\* recommendations computed from store st at instant now.
Recommended(st, now) ==
  LET volumeRec == getRecommendation(getLastVolumeSession(st), now)
      trainingRec == getTrainingRecommendation(getLastTrainingSession(st))
  IN [level |-> volumeRec.level, boulderCount |-> volumeRec.boulderCount,
      hangWeight |-> trainingRec.hangWeight,
      pullupWeight |-> trainingRec.pullupWeight,
      benchWeight |-> trainingRec.benchWeight,
      trapBarWeight |-> trainingRec.trapBarWeight]

\* useState defaults of StartView's form
FormInit ==
  [level |-> 5, boulderCount |-> 20, hangWeight |-> 0, pullupWeight |-> 0,
   benchWeight |-> 100, trapBarWeight |-> 200]

-----------------------------------------------------------------------------
(* Initial state *)

\* useState defaults of TrainingSessionView
TimerInit ==
  [showPrepTimer |-> FALSE, showHangTimer |-> FALSE, showRestTimer |-> FALSE,
   restTimerPaused |-> FALSE, pendingHangSetId |-> 0, isFirstHangSet |-> TRUE,
   lastExercise |-> "null"]

\* RestTimer.tsx.  Time is counted in units of 500 ms: setInterval fires
\* every IntervalTicks units and setTimeout(onComplete, 500) after one.
IntervalTicks == 2

\* duration={5}, TRAINING_PROTOCOL.hangDuration (7) and .restBetweenSets
\* (180), in seconds, scaled down to countdowns of one and two seconds
PrepDuration == 1
HangDuration == 1
RestDuration == 2

Timers == {"prep", "hang", "rest"}

Duration(t) ==
  CASE t = "prep" -> PrepDuration
    [] t = "hang" -> HangDuration
    [] t = "rest" -> RestDuration

\* isOpen of the RestTimer t under TrainingSessionView's timer state tm
IsOpen(tm, t) ==
  CASE t = "prep" -> tm.showPrepTimer
    [] t = "hang" -> tm.showHangTimer
    [] t = "rest" -> tm.showRestTimer

\* isPaused is passed to the rest timer only.
IsPaused(tm, t) == t = "rest" /\ tm.restTimerPaused

\* The three RestTimer components of a tab: timeRemaining of each, the time
\* since the running intervals were created or last fired (all intervals of a
\* tab are created by the effects of one render), the timers whose interval
\* cleared itself on reaching zero, and for how long the rest countdown has
\* run since the rest timer opened.
CountdownInit ==
  [timeRemaining |-> [t \in Timers |-> Duration(t)], phase |-> 0,
   cleared |-> {}, restRun |-> 0]

\* TrainingSessionView has rendered with timer state tm: the effect of every
\* RestTimer runs again (onComplete is a new function on each render); a
\* closed timer resets timeRemaining, an open one that is not paused gets a
\* new interval.
Rendered(cd, tm) ==
  [timeRemaining |-> [t \in Timers |->
                        IF IsOpen(tm, t) THEN cd.timeRemaining[t]
                        ELSE Duration(t)],
   phase |-> 0,
   cleared |-> {},
   restRun |-> IF tm.showRestTimer THEN cd.restRun ELSE 0]

\* A session written by the version 1 application (no sessionType field):
\* one boulder, logged, finished.
LegacySession(id) ==
  [id |-> id, sessionType |-> "undefined", date |-> ISO(0),
   startTime |-> ISO(0), endTime |-> ISO(0), isFinished |-> TRUE,
   targetLevel |-> 5, boulderCount |-> 1,
   attempts |-> <<[id |-> 100 * id + 1, order |-> 1, result |-> "done",
                   comment |-> "undefined", timestamp |-> ISO(0)]>>]

LegacyIds == {1}

V1Payload ==
  [kind |-> "json", version |-> 1, sessions |-> <<LegacySession(1)>>]

\* A version 2 payload that parses but holds a record that is not a Session:
\* its startTime is missing.
IncompleteSession(id) ==
  [LegacySession(id) EXCEPT !.sessionType = "volume", !.startTime = Undefined]

IncompletePayload ==
  [kind |-> "json", version |-> 2, sessions |-> <<IncompleteSession(1)>>]

\* A version 2 payload one record of which lost its attempts array, before
\* or after a finished volume session.
TornSession(id) ==
  [id |-> id, sessionType |-> "volume", date |-> ISO(0), startTime |-> ISO(0),
   endTime |-> ISO(0), isFinished |-> TRUE, targetLevel |-> 5,
   boulderCount |-> 1]

TornPayloads ==
  {[kind |-> "json", version |-> 2,
    sessions |-> <<migrateOne(LegacySession(1)), TornSession(9)>>],
   [kind |-> "json", version |-> 2,
    sessions |-> <<TornSession(9), migrateOne(LegacySession(1))>>]}

\* "none": setItem stores the value; otherwise the name of the DOMException
\* it throws (the quota is used up, or storage is disabled for the page).
SetItemErrors == {"none", "QuotaExceededError", "SecurityError"}

\* The application has just been deployed; no tab has loaded it yet.
InitWith(payloads) ==
  /\ store \in payloads
  /\ clock = 1
  /\ nextId = 2
  /\ page = [v \in Views |-> "closed"]
  /\ session = [v \in Views |-> NoSession]
  /\ sessions = [v \in Views |-> <<>>]
  /\ showFinishConfirm = [v \in Views |-> FALSE]
  /\ timer = [v \in Views |-> TimerInit]
  /\ thrown = [v \in Views |-> "none"]
  /\ form = [v \in Views |-> FormInit]
  /\ setItemError \in SetItemErrors
  /\ countdown = [v \in Views |-> CountdownInit]
  /\ timeouts = [v \in Views |-> <<>>]

Init == InitWith({NoItem, V1Payload, Unparsable, Malformed})

-----------------------------------------------------------------------------
(* Routing: what a tab shows once the mount effect of the route's component, *)
(* and of every component it redirects to, has run against store st.         *)

RECURSIVE Mount(_, _, _)
Mount(st, route, id) ==
  LET found == getById(st, id)
      active == getCurrentSession(st)
      home == Mount(st, "/", 0)
  IN CASE route = "/" ->
            IF active # NoSession
            THEN IF isVolumeSession(active)
                 THEN Mount(st, "/session", active.id)
                 ELSE Mount(st, "/training", active.id)
            ELSE [page |-> "start", session |-> NoSession,
                  sessions |-> FilterSeq(getAllSessions(st),
                                         LAMBDA s : s.isFinished),
                  form |-> Recommended(st, clock)]
       [] route = "/session" ->
            IF found = NoSession THEN home
            ELSE IF ~isVolumeSession(found) THEN home
            ELSE IF found.isFinished THEN Mount(st, "/summary", id)
            ELSE [page |-> "active", session |-> found, sessions |-> <<>>,
                  form |-> FormInit]
       [] route = "/training" ->
            IF found = NoSession THEN home
            ELSE IF ~isTrainingSession(found) THEN home
            ELSE IF found.isFinished THEN Mount(st, "/summary", id)
            ELSE [page |-> "training", session |-> found, sessions |-> <<>>,
                  form |-> FormInit]
       [] route = "/summary" ->
            IF found = NoSession THEN home
            ELSE [page |-> "summary", session |-> found, sessions |-> <<>>,
                  form |-> FormInit]

\* The component that called setTimeout has been unmounted: the callback
\* still runs, its setState calls do nothing.
Unmounted(c) == [c EXCEPT !.mounted = FALSE]

\* The tab has rendered again with timer state tm.
Rerender(v, tm) ==
  /\ countdown' = [countdown EXCEPT ![v] = Rendered(@, tm)]
  /\ UNCHANGED timeouts

\* Every handler runs at a later instant than the one before it; new Date()
\* inside the handler returns that instant.
Tick == clock <= MaxClock /\ clock' = clock + 1 /\ UNCHANGED setItemError

\* navigate(route/id) in tab v, st being the store the handler leaves.
Navigate(v, st, route, id) ==
  LET m == Mount(st, route, id)
  IN /\ store' = StoreAfterRead(st)
     /\ page' = [page EXCEPT ![v] = m.page]
     /\ session' = [session EXCEPT ![v] = m.session]
     /\ sessions' = [sessions EXCEPT ![v] = m.sessions]
     /\ form' = [form EXCEPT ![v] = m.form]
     /\ showFinishConfirm' = [showFinishConfirm EXCEPT ![v] = FALSE]
     /\ timer' = [timer EXCEPT ![v] = TimerInit]
     /\ thrown' = [thrown EXCEPT ![v] = "none"]
     /\ countdown' = [countdown EXCEPT ![v] = CountdownInit]
     /\ timeouts' = [timeouts EXCEPT ![v] = MapSeq(@, Unmounted)]

\* The handler threw err: the tab's React state is as it was.
Throw(v, st, err) ==
  /\ store' = st
  /\ thrown' = [thrown EXCEPT ![v] = err]
  /\ UNCHANGED <<page, form, session, sessions, showFinishConfirm, timer,
                 countdown, timeouts>>

\* Opening the application at "/" in tab v, its "Back" / "Home" button, or
\* the browser's Back to "/" (the only way out while a timer covers the page).
GoHome(v) ==
  /\ Navigate(v, store, "/", 0)
  /\ Tick /\ UNCHANGED nextId


-----------------------------------------------------------------------------
(* StartView *)

\* onChange of a number field: parseInt(e.target.value) || 1
ParseIntOr1(typed) == IF typed = 0 THEN 1 ELSE typed

\* What the "Number of Boulders" and "Target Level" fields can hold when the
\* start button is pressed: what the user typed, or (in Next) the value the
\* recommendation put there.
FormBoulderCounts == {ParseIntOr1(typed) : typed \in (-1)..MaxBoulders}
FormLevels == {5}

\* Array.from({length: n}, (_, i) => item(i + 1)); a negative length gives
\* the empty array.
ArrayFrom(n, Item(_)) == [i \in 1..n |-> Item(i)]

\* NewAttempt with order: i instead of order: i + 1
NewAttemptZeroBased(sid, i) ==
  [id |-> 100 * sid + i, order |-> i - 1, result |-> "undefined",
   comment |-> "undefined", timestamp |-> Undefined]

NewAttempt(sid, i) ==
  [id |-> 100 * sid + i, order |-> i, result |-> "undefined",
   comment |-> "undefined", timestamp |-> Undefined]

NewVolumeSession(id, now, level, boulderCount) ==
  [id |-> id, sessionType |-> "volume", date |-> Date(now),
   startTime |-> Date(now), endTime |-> Undefined, isFinished |-> FALSE,
   targetLevel |-> level, boulderCount |-> boulderCount,
   attempts |-> ArrayFrom(boulderCount, LAMBDA i : NewAttempt(id, i))]

ExerciseIndex(ex) == CHOOSE k \in 1..4 : Exercises[k] = ex

NewSet(sid, ex, i) ==
  [id |-> 100 * sid + 10 * ExerciseIndex(ex) + i, order |-> i,
   exercise |-> ex, completed |-> FALSE, timestamp |-> Undefined]

NewTrainingSession(id, now, w) ==
  [id |-> id, sessionType |-> "training", date |-> Date(now),
   startTime |-> Date(now), endTime |-> Undefined, isFinished |-> FALSE,
   trainingData |->
     [hangWeight |-> w.hang, pullupWeight |-> w.pullup,
      benchWeight |-> w.bench, trapBarWeight |-> w.trapBar,
      hangSets |-> ArrayFrom(NumSets, LAMBDA i : NewSet(id, "hang", i)),
      pullupSets |-> ArrayFrom(NumSets, LAMBDA i : NewSet(id, "pullup", i)),
      benchSets |-> ArrayFrom(NumSets, LAMBDA i : NewSet(id, "bench", i)),
      trapBarSets |-> ArrayFrom(NumSets, LAMBDA i : NewSet(id, "trapbar", i))]]

\* The four weight fields as the recommendation left them.
FormWeights(v) ==
  [hang |-> form[v].hangWeight, pullup |-> form[v].pullupWeight,
   bench |-> form[v].benchWeight, trapBar |-> form[v].trapBarWeight]

CanCreate == nextId - 1 - Cardinality(LegacyIds) < MaxSessions

\* handleStartSession for newSession: saveSession, then navigate(route).
\* When saveAllSessions throws the handler ends there; the identifier drawn
\* for the session is then never seen again.
StartSession(v, newSession, route) ==
  IF Rejects
  THEN Throw(v, StoreAfterRead(store), SaveError) /\ UNCHANGED nextId
  ELSE /\ Navigate(v, saveSession(store, newSession), route, newSession.id)
       /\ nextId' = nextId + 1

\* handleStartSession, sessionType === 'volume'
StartVolume(v, level, boulderCount) ==
  /\ page[v] = "start"
  /\ CanCreate
  /\ StartSession(v, NewVolumeSession(nextId, clock, level, boulderCount),
                  "/session")
  /\ Tick

\* handleStartSession, sessionType === 'training'
StartTraining(v) ==
  /\ page[v] = "start"
  /\ CanCreate
  /\ StartSession(v, NewTrainingSession(nextId, clock, FormWeights(v)),
                  "/training")
  /\ Tick

\* SessionHistoryItem onClick
OpenSummary(v, i) ==
  /\ page[v] = "start"
  /\ i \in 1..Len(sessions[v])
  /\ Navigate(v, store, "/summary", sessions[v][i].id)
  /\ Tick /\ UNCHANGED nextId

\* confirmDelete, deleteConfirm being the i-th session of the history list
confirmDelete(v, i) ==
  /\ page[v] = "start"
  /\ i \in 1..Len(sessions[v])
  /\ LET id == sessions[v][i].id
     IN IF WriteError(store, id) # "none"
        THEN Throw(v, StoreAfterRead(store), WriteError(store, id))
        ELSE /\ store' = deleteSession(store, id)
             /\ sessions' = [sessions EXCEPT ![v] =
                               FilterSeq(@, LAMBDA s : s.id # id)]
             /\ form' = [form EXCEPT ![v] =
                           Recommended(deleteSession(store, id), clock)]
             /\ thrown' = [thrown EXCEPT ![v] = "none"]
             /\ UNCHANGED <<page, session, showFinishConfirm, timer,
                            countdown, timeouts>>
  /\ Tick /\ UNCHANGED nextId

-----------------------------------------------------------------------------
(* ActiveSessionView *)

AttemptResults == {"flash", "done", "fail"}
\* comment.trim() || undefined, as BoulderLogModal passes it
Comments == {"undefined", "note"}

\* getAttemptCounts(session).unlogged
unlogged(s) == Cardinality({i \in 1..Len(s.attempts) : s.attempts[i].result = "undefined"})

\* The logged attempt that keeps its comment when none is passed
LoggedAttemptKeepComment(a, result, comment, now) ==
  [a EXCEPT !.result = result,
            !.comment = IF comment = "undefined" THEN @ ELSE comment,
            !.timestamp = Date(now)]

\* { ...a, result, comment, timestamp: new Date() }
LoggedAttempt(a, result, comment, now) ==
  [a EXCEPT !.result = result, !.comment = comment, !.timestamp = Date(now)]

\* handleLogAttempt, selectedAttempt being the i-th attempt of the session
handleLogAttempt(v, i, result, comment) ==
  /\ page[v] = "active"
  /\ ~showFinishConfirm[v]
  /\ i \in 1..Len(session[v].attempts)
  /\ LET selectedAttempt == session[v].attempts[i]
         updatedAttempts ==
           MapSeq(session[v].attempts,
                  LAMBDA a : IF a.id = selectedAttempt.id
                             THEN LoggedAttempt(a, result, comment, clock)
                             ELSE a)
         updatedSession == [session[v] EXCEPT !.attempts = updatedAttempts]
     IN IF WriteError(store, updatedSession.id) # "none"
        THEN Throw(v, StoreAfterRead(store),
                   WriteError(store, updatedSession.id))
        ELSE /\ store' = updateSession(store, updatedSession)
             /\ session' = [session EXCEPT ![v] = updatedSession]
             /\ thrown' = [thrown EXCEPT ![v] = "none"]
             /\ UNCHANGED <<page, form, sessions, showFinishConfirm, timer,
                            countdown, timeouts>>
  /\ Tick
  /\ UNCHANGED nextId

\* FinishedSession without endTime
FinishedSessionNoEndTime(s, now) == [s EXCEPT !.isFinished = TRUE]

\* { ...session, isFinished: true, endTime: new Date() }
FinishedSession(s, now) == [s EXCEPT !.isFinished = TRUE, !.endTime = Date(now)]

\* finishSession / completeSession
finishSession(v) ==
  /\ LET finishedSession == FinishedSession(session[v], clock)
     IN IF WriteError(store, finishedSession.id) # "none"
        THEN Throw(v, StoreAfterRead(store),
                   WriteError(store, finishedSession.id))
        ELSE Navigate(v, updateSession(store, finishedSession),
                      "/summary", session[v].id)
  /\ Tick
  /\ UNCHANGED nextId

\* handleFinishSession that asks for confirmation from 5 unlogged attempts on
handleFinishSessionFromFive(v) ==
  /\ page[v] = "active"
  /\ ~showFinishConfirm[v]
  /\ IF unlogged(session[v]) >= 5
     THEN /\ showFinishConfirm' = [showFinishConfirm EXCEPT ![v] = TRUE]
          /\ Rerender(v, timer[v])
          /\ Tick
          /\ UNCHANGED <<store, nextId, page, form, session, sessions,
                         timer, thrown>>
     ELSE finishSession(v)

\* ActiveSessionView.handleFinishSession
handleFinishSession(v) ==
  /\ page[v] = "active"
  /\ ~showFinishConfirm[v]
  /\ IF unlogged(session[v]) > 5
     THEN /\ showFinishConfirm' = [showFinishConfirm EXCEPT ![v] = TRUE]
          /\ Rerender(v, timer[v])
          /\ Tick
          /\ UNCHANGED <<store, nextId, page, form, session, sessions,
                         timer, thrown>>
     ELSE finishSession(v)

\* "Finish Anyway" / "Keep ..." of the early-finish ConfirmDialog
ConfirmFinish(v) ==
  /\ page[v] \in {"active", "training"}
  /\ showFinishConfirm[v]
  /\ finishSession(v)

CancelFinish(v) ==
  /\ page[v] \in {"active", "training"}
  /\ showFinishConfirm[v]
  /\ showFinishConfirm' = [showFinishConfirm EXCEPT ![v] = FALSE]
  /\ Rerender(v, timer[v])
  /\ Tick
  /\ UNCHANGED <<store, nextId, page, form, session, sessions, timer, thrown>>

\* A RestTimer or ConfirmDialog overlay covers the page of tab v.
ModalOpen(v) ==
  \/ showFinishConfirm[v]
  \/ timer[v].showPrepTimer
  \/ timer[v].showHangTimer
  \/ timer[v].showRestTimer

\* handleBreakSession (ActiveSessionView and TrainingSessionView)
handleBreakSession(v) ==
  /\ page[v] \in {"active", "training"}
  /\ ~ModalOpen(v)
  /\ IF WriteError(store, session[v].id) # "none"
     THEN Throw(v, StoreAfterRead(store), WriteError(store, session[v].id))
     ELSE Navigate(v, deleteSession(store, session[v].id), "/", 0)
  /\ Tick /\ UNCHANGED nextId


\* SummaryView.handleDelete
handleDelete(v) ==
  /\ page[v] = "summary"
  /\ IF WriteError(store, session[v].id) # "none"
     THEN Throw(v, StoreAfterRead(store), WriteError(store, session[v].id))
     ELSE Navigate(v, deleteSession(store, session[v].id), "/", 0)
  /\ Tick /\ UNCHANGED nextId

-----------------------------------------------------------------------------
(* TrainingSessionView *)

\* The sets of exercise ex that the view renders: trainingData.hangSets,
\* pullupSets, (benchSets ?? []), (trapBarSets ?? []).
SetsOf(s, ex) == OrElse(s.trainingData, SetsField(ex), <<>>)

WithSets(s, ex, sets) ==
  [s EXCEPT !.trainingData = [@ EXCEPT ![SetsField(ex)] = sets]]

\* PersistSession that calls setSession before updateSession
PersistSessionMemoryFirst(v, updatedSession, newTimer) ==
  IF WriteError(store, updatedSession.id) # "none"
  THEN /\ store' = StoreAfterRead(store)
       /\ session' = [session EXCEPT ![v] = updatedSession]
       /\ thrown' = [thrown EXCEPT ![v] = WriteError(store, updatedSession.id)]
       /\ Rerender(v, timer[v])
       /\ UNCHANGED <<page, form, sessions, showFinishConfirm, timer>>
  ELSE /\ store' = updateSession(store, updatedSession)
       /\ session' = [session EXCEPT ![v] = updatedSession]
       /\ timer' = [timer EXCEPT ![v] = newTimer]
       /\ thrown' = [thrown EXCEPT ![v] = "none"]
       /\ Rerender(v, newTimer)
       /\ UNCHANGED <<page, form, sessions, showFinishConfirm>>

\* updateSession(updatedSession); setSession(updatedSession); then the timer
\* state the handler sets when the update did not throw.
PersistSession(v, updatedSession, newTimer) ==
  IF WriteError(store, updatedSession.id) # "none"
  THEN Throw(v, StoreAfterRead(store), WriteError(store, updatedSession.id))
  ELSE /\ store' = updateSession(store, updatedSession)
       /\ session' = [session EXCEPT ![v] = updatedSession]
       /\ timer' = [timer EXCEPT ![v] = newTimer]
       /\ thrown' = [thrown EXCEPT ![v] = "none"]
       /\ Rerender(v, newTimer)
       /\ UNCHANGED <<page, form, sessions, showFinishConfirm>>

\* The timer state after handleSetToggle started the timer flow for the
\* hang set: prep before the first hang of this mount, else the hang timer.
StartedHang(tm, set) ==
  [tm EXCEPT !.pendingHangSetId = set.id,
             !.showPrepTimer = @ \/ tm.isFirstHangSet,
             !.showHangTimer = @ \/ ~tm.isFirstHangSet]

\* ToggledSet that leaves the timestamp of a set it un-completes
ToggledSetKeepsTimestamp(s, now) ==
  IF s.exercise = "hang"
  THEN [s EXCEPT !.completed = FALSE]
  ELSE [s EXCEPT !.completed = ~s.completed,
                 !.timestamp = IF ~s.completed THEN Date(now) ELSE @]

\* handleSetToggle's new value of the set it was called for, when it does
\* not start the timer flow.
ToggledSet(s, now) ==
  IF s.exercise = "hang"
  THEN [s EXCEPT !.completed = FALSE, !.timestamp = Undefined]
  ELSE [s EXCEPT !.completed = ~s.completed,
                 !.timestamp = IF ~s.completed THEN Date(now) ELSE Undefined]

\* handleSetToggle that flips a hang set like any other set
handleSetToggleDirect(v, ex, i) ==
  /\ page[v] = "training"
  /\ ~ModalOpen(v)
  /\ i \in 1..Len(SetsOf(session[v], ex))
  /\ LET set == SetsOf(session[v], ex)[i]
     IN PersistSession(v,
          WithSets(session[v], ex,
            MapSeq(SetsOf(session[v], ex),
                   LAMBDA s : IF s.id = set.id
                              THEN [s EXCEPT !.completed = ~s.completed,
                                             !.timestamp =
                                               IF ~s.completed THEN Date(clock)
                                               ELSE Undefined]
                              ELSE s)),
          IF ~set.completed
          THEN [timer[v] EXCEPT !.lastExercise = ex, !.showRestTimer = TRUE]
          ELSE timer[v])
  /\ Tick /\ UNCHANGED nextId

\* handleSetToggle(set), set being the i-th set of exercise ex
handleSetToggle(v, ex, i) ==
  /\ page[v] = "training"
  /\ ~ModalOpen(v)
  /\ i \in 1..Len(SetsOf(session[v], ex))
  /\ LET set == SetsOf(session[v], ex)[i]
     IN IF set.exercise = "hang" /\ ~set.completed
        THEN \* start the timer flow, the set is not marked yet
             /\ timer' = [timer EXCEPT ![v] = StartedHang(@, set)]
             /\ Rerender(v, StartedHang(timer[v], set))
             /\ thrown' = [thrown EXCEPT ![v] = "none"]
             /\ Tick
             /\ UNCHANGED <<store, nextId, page, form, session, sessions,
                            showFinishConfirm>>
        ELSE \* un-complete a hang set; flip a pullup, bench or trapbar set
             \* and rest after completing it
             /\ PersistSession(v,
                  WithSets(session[v], ex,
                    MapSeq(SetsOf(session[v], ex),
                           LAMBDA s : IF s.id = set.id
                                      THEN ToggledSet(s, clock) ELSE s)),
                  IF set.exercise # "hang" /\ ~set.completed
                  THEN [timer[v] EXCEPT !.lastExercise = ex,
                                        !.showRestTimer = TRUE]
                  ELSE timer[v])
             /\ Tick /\ UNCHANGED nextId

\* handlePrepComplete that opens the hang timer over the prep timer
AfterPrepCompleteKeepsPrep(tm) == [tm EXCEPT !.showHangTimer = TRUE]

\* handlePrepComplete's setShowPrepTimer(false); setShowHangTimer(true)
AfterPrepComplete(tm) ==
  [tm EXCEPT !.showPrepTimer = FALSE, !.showHangTimer = TRUE]

\* handleHangComplete's updatedSession, for the session s and the
\* pendingHangSetId id that the handler closes over
CompletedHang(s, id, now) ==
  WithSets(s, "hang",
    MapSeq(s.trainingData.hangSets,
           LAMBDA x : IF x.id = id
                      THEN [x EXCEPT !.completed = TRUE, !.timestamp = Date(now)]
                      ELSE x))

\* handleHangComplete's setIsFirstHangSet(false) ... setShowRestTimer(true)
AfterHangComplete(tm) ==
  [tm EXCEPT !.isFirstHangSet = FALSE, !.lastExercise = "hang",
             !.showHangTimer = FALSE, !.showRestTimer = TRUE]

\* AfterRestComplete that shows the prep timer before the next hang
AfterRestCompleteWithPrep(tm, lastExercise, hangSets) ==
  LET next == FindIndex(hangSets, LAMBDA s : ~s.completed)
      closed == [tm EXCEPT !.showRestTimer = FALSE, !.restTimerPaused = FALSE]
  IN IF lastExercise = "hang" /\ next # 0
     THEN [closed EXCEPT !.pendingHangSetId = hangSets[next].id,
                         !.showPrepTimer = TRUE]
     ELSE closed

\* handleRestComplete's state updates, for the lastExercise and the hang
\* sets of the session that the handler closes over
AfterRestComplete(tm, lastExercise, hangSets) ==
  LET next == FindIndex(hangSets, LAMBDA s : ~s.completed)
      closed == [tm EXCEPT !.showRestTimer = FALSE, !.restTimerPaused = FALSE]
  IN IF lastExercise = "hang" /\ next # 0
     THEN [closed EXCEPT !.pendingHangSetId = hangSets[next].id,
                         !.showHangTimer = TRUE]
     ELSE closed

\* handlePrepComplete: the 5 s prep countdown ran out
handlePrepComplete(v) ==
  /\ page[v] = "training"
  /\ timer[v].showPrepTimer
  /\ timer' = [timer EXCEPT ![v] = AfterPrepComplete(@)]
  /\ Rerender(v, AfterPrepComplete(timer[v]))
  /\ Tick
  /\ UNCHANGED <<store, nextId, page, form, session, sessions,
                 showFinishConfirm, thrown>>

\* A Skip of the hang timer that closes it and completes nothing
handleHangSkipOnly(v) ==
  /\ page[v] = "training"
  /\ timer[v].showHangTimer
  /\ timer' = [timer EXCEPT ![v] = [@ EXCEPT !.showHangTimer = FALSE,
                                              !.lastExercise = "hang"]]
  /\ Rerender(v, [timer[v] EXCEPT !.showHangTimer = FALSE,
                                  !.lastExercise = "hang"])
  /\ Tick
  /\ UNCHANGED <<store, nextId, page, form, session, sessions,
                 showFinishConfirm, thrown>>

\* handleHangComplete: the 7 s hang countdown ran out, or handleHangSkip
handleHangComplete(v) ==
  /\ page[v] = "training"
  /\ timer[v].showHangTimer
  /\ IF timer[v].pendingHangSetId = 0
     THEN UNCHANGED <<store, page, form, session, sessions, showFinishConfirm,
                      timer, thrown, countdown, timeouts>>
     ELSE PersistSession(v,
            CompletedHang(session[v], timer[v].pendingHangSetId, clock),
            AfterHangComplete(timer[v]))
  /\ Tick
  /\ UNCHANGED nextId

\* handleRestComplete: the rest countdown ran out (it does not run while
\* paused), or the rest timer's Skip button
handleRestComplete(v, skipped) ==
  /\ page[v] = "training"
  /\ timer[v].showRestTimer
  /\ skipped \/ ~timer[v].restTimerPaused
  /\ timer' = [timer EXCEPT ![v] =
       AfterRestComplete(@, timer[v].lastExercise,
                         session[v].trainingData.hangSets)]
  /\ Rerender(v, AfterRestComplete(timer[v], timer[v].lastExercise,
                                   session[v].trainingData.hangSets))
  /\ Tick
  /\ UNCHANGED <<store, nextId, page, form, session, sessions,
                 showFinishConfirm, thrown>>

\* onPause of the rest timer
RestPause(v) ==
  /\ page[v] = "training"
  /\ timer[v].showRestTimer
  /\ timer' = [timer EXCEPT ![v] = [@ EXCEPT !.restTimerPaused = ~@]]
  /\ Rerender(v, [timer[v] EXCEPT !.restTimerPaused = ~@])
  /\ Tick
  /\ UNCHANGED <<store, nextId, page, form, session, sessions,
                 showFinishConfirm, thrown>>

CountCompleted(sets) == Cardinality({i \in 1..Len(sets) : sets[i].completed})

totalCompleted(s) ==
  CountCompleted(s.trainingData.hangSets)
  + CountCompleted(s.trainingData.pullupSets)
  + CountCompleted(OrElse(s.trainingData, "benchSets", <<>>))
  + CountCompleted(OrElse(s.trainingData, "trapBarSets", <<>>))

totalSets(s) ==
  Len(s.trainingData.hangSets) + Len(s.trainingData.pullupSets)
  + Len(OrElse(s.trainingData, "benchSets", <<>>))
  + Len(OrElse(s.trainingData, "trapBarSets", <<>>))

\* TrainingSessionView.handleFinishSession
handleFinishTraining(v) ==
  /\ page[v] = "training"
  /\ ~ModalOpen(v)
  /\ IF totalCompleted(session[v]) < totalSets(session[v])
     THEN /\ showFinishConfirm' = [showFinishConfirm EXCEPT ![v] = TRUE]
          /\ Rerender(v, timer[v])
          /\ Tick
          /\ UNCHANGED <<store, nextId, page, form, session, sessions,
                         timer, thrown>>
     ELSE finishSession(v)

-----------------------------------------------------------------------------
(* RestTimer: the countdowns of TrainingSessionView *)

\* The interval of timer t exists: its effect created one (isOpen, not
\* isPaused) and it has not cleared itself.
Runs(cd, tm, t) == IsOpen(tm, t) /\ ~IsPaused(tm, t) /\ t \notin cd.cleared

\* The interval callback runs in this unit of time.
Fires(cd) == cd.phase + 1 = IntervalTicks

\* setTimeRemaining's updater reaches its `prev <= 1` branch for timer t.
ReachesZero(cd, tm, t) ==
  Runs(cd, tm, t) /\ Fires(cd) /\ cd.timeRemaining[t] <= 1

\* 500 ms pass with no render of TrainingSessionView in between.
Advanced(cd, tm) ==
  [timeRemaining |->
     [t \in Timers |->
        IF Runs(cd, tm, t) /\ Fires(cd)
        THEN IF cd.timeRemaining[t] <= 1 THEN 0 ELSE cd.timeRemaining[t] - 1
        ELSE cd.timeRemaining[t]],
   phase |-> IF (\E t \in Timers : Runs(cd, tm, t)) /\ ~Fires(cd)
             THEN cd.phase + 1 ELSE 0,
   cleared |-> cd.cleared \cup {t \in Timers : ReachesZero(cd, tm, t)},
   restRun |-> IF Runs(cd, tm, "rest") THEN cd.restRun + 1 ELSE cd.restRun]

\* The onComplete that the interval of timer t of tab v holds: the handler
\* of the last render, with the state of that render in its closure.
Closure(v, t) ==
  [handler |-> t, mounted |-> TRUE, session |-> session[v],
   pendingHangSetId |-> timer[v].pendingHangSetId,
   lastExercise |-> timer[v].lastExercise]

\* The setTimeout(onComplete, 500) calls made in this unit of time.
Scheduled(v) ==
  MapSeq(SelectSeq(<<"prep", "hang", "rest">>,
                   LAMBDA t : ReachesZero(countdown[v], timer[v], t)),
         LAMBDA t : Closure(v, t))

\* What onComplete with closure c leaves of w, the store and the state of
\* the tab: handlePrepComplete, handleHangComplete or handleRestComplete as
\* the render that c comes from defined it.  The setState calls of an
\* unmounted component do nothing; updateSession writes all the same.
RunCallback(c, w, now) ==
  CASE c.handler = "prep" ->
         IF c.mounted THEN [w EXCEPT !.timer = AfterPrepComplete(@)] ELSE w
    [] c.handler = "rest" ->
         IF c.mounted
         THEN [w EXCEPT !.timer =
                 AfterRestComplete(@, c.lastExercise,
                                   c.session.trainingData.hangSets)]
         ELSE w
    [] c.handler = "hang" ->
         IF c.pendingHangSetId = 0 THEN w
         ELSE LET updatedSession ==
                    CompletedHang(c.session, c.pendingHangSetId, now)
                  error ==
                    IF NotFound(w.store, updatedSession.id) THEN "NotFound"
                    ELSE IF Rejects THEN SaveError
                    ELSE "none"
              IN IF error # "none"
                 THEN [w EXCEPT !.store = StoreAfterRead(@), !.thrown = error]
                 ELSE IF c.mounted
                 THEN [store |-> updateSession(w.store, updatedSession),
                       session |-> updatedSession,
                       timer |-> AfterHangComplete(w.timer),
                       thrown |-> "none"]
                 ELSE [w EXCEPT !.store = updateSession(@, updatedSession)]

RECURSIVE RunCallbacks(_, _, _)
RunCallbacks(cs, w, now) ==
  IF cs = <<>> THEN w
  ELSE RunCallbacks(Tail(cs), RunCallback(Head(cs), w, now), now)

\* handleHangComplete reads the clock.
ReadsClock(c) == c.handler = "hang" /\ c.pendingHangSetId # 0

\* 500 ms pass in tab v: the callbacks whose timeout is due run; when they
\* changed the state of TrainingSessionView it renders again, otherwise the
\* intervals go on.
Elapse(v) ==
  /\ page[v] # "closed"
  /\ \/ timeouts[v] # <<>>
     \/ \E t \in Timers : Runs(countdown[v], timer[v], t)
  /\ LET w == [store |-> store, session |-> session[v], timer |-> timer[v],
               thrown |-> thrown[v]]
         after == RunCallbacks(timeouts[v], w, clock)
         rendered == after.timer # timer[v] \/ after.session # session[v]
     IN /\ store' = after.store
        /\ session' = [session EXCEPT ![v] = after.session]
        /\ timer' = [timer EXCEPT ![v] = after.timer]
        /\ thrown' = [thrown EXCEPT ![v] = after.thrown]
        /\ countdown' = [countdown EXCEPT ![v] =
             IF rendered THEN Rendered(@, after.timer)
             ELSE Advanced(@, timer[v])]
        /\ timeouts' = [timeouts EXCEPT ![v] =
             IF rendered THEN <<>> ELSE Scheduled(v)]
  /\ IF \E i \in 1..Len(timeouts[v]) : ReadsClock(timeouts[v][i])
     THEN Tick
     ELSE UNCHANGED <<clock, setItemError>>
  /\ UNCHANGED <<nextId, page, sessions, showFinishConfirm, form>>

-----------------------------------------------------------------------------
(* The browser *)

\* localStorage stops accepting writes: from now on setItem throws e.
StorageFails(e) ==
  /\ setItemError = "none"
  /\ setItemError' = e
  /\ clock <= MaxClock /\ clock' = clock + 1
  /\ UNCHANGED <<store, nextId, page, session, sessions, showFinishConfirm,
                 timer, thrown, form, countdown, timeouts>>

-----------------------------------------------------------------------------

Next ==
  \E v \in Views :
    \/ GoHome(v)
    \/ \E level \in FormLevels \cup {form[v].level},
          boulderCount \in FormBoulderCounts \cup {form[v].boulderCount} :
         StartVolume(v, level, boulderCount)
    \/ StartTraining(v)
    \/ \E i \in 1..Len(sessions[v]) : OpenSummary(v, i)
    \/ \E i \in 1..Len(sessions[v]) : confirmDelete(v, i)
    \/ \E i \in 1..MaxBoulders, result \in AttemptResults, comment \in Comments :
         handleLogAttempt(v, i, result, comment)
    \/ handleFinishSession(v)
    \/ ConfirmFinish(v)
    \/ CancelFinish(v)
    \/ handleBreakSession(v)
    \/ handleDelete(v)
    \/ \E k \in 1..4, i \in 1..NumSets : handleSetToggle(v, Exercises[k], i)
    \/ handlePrepComplete(v)
    \/ handleHangComplete(v)
    \/ \E skipped \in BOOLEAN : handleRestComplete(v, skipped)
    \/ RestPause(v)
    \/ handleFinishTraining(v)
    \/ \E e \in SetItemErrors \ {"none"} : StorageFails(e)

Spec == Init /\ [][Next]_vars

\* Reading and deleting what an arbitrary stored text holds.
InitPayloads ==
  InitWith({NoItem, V1Payload, Unparsable, Malformed, IncompletePayload})

NextPayloads ==
  \E v \in Views :
    \/ GoHome(v)
    \/ \E i \in 1..Len(sessions[v]) : OpenSummary(v, i)
    \/ \E i \in 1..Len(sessions[v]) : confirmDelete(v, i)
    \/ handleDelete(v)
    \/ \E e \in SetItemErrors \ {"none"} : StorageFails(e)

SpecPayloads == InitPayloads /\ [][NextPayloads]_vars

\* Starting sessions over a stored text that is read as an empty collection.
InitRecovery ==
  InitWith({V1Payload, Unparsable, Malformed} \cup TornPayloads)

NextRecovery ==
  \E v \in Views :
    \/ GoHome(v)
    \/ StartVolume(v, form[v].level, form[v].boulderCount)
    \/ StartTraining(v)
    \/ \E i \in 1..Len(sessions[v]) : OpenSummary(v, i)
    \/ handleBreakSession(v)
    \/ \E e \in SetItemErrors \ {"none"} : StorageFails(e)

SpecRecovery == InitRecovery /\ [][NextRecovery]_vars


-----------------------------------------------------------------------------
(* Properties *)

\* The stored session records, as written.
Stored == IF store.kind = "json" THEN store.sessions ELSE <<>>

\* The stored session records as every reader sees them: after the
\* migration that any access to the store performs first.
StoredNow == IF store.kind = "json" THEN Migrated(store).sessions ELSE <<>>
StoredNext == IF store'.kind = "json" THEN Migrated(store').sessions ELSE <<>>

StoredIds == {Stored[i].id : i \in 1..Len(Stored)}
Unfinished == {i \in 1..Len(Stored) : ~Stored[i].isFinished}

InSessionView(v) == page[v] \in {"active", "training"}

\* C1: the stored collection never holds more than one session with
\* isFinished = false.
C1_AtMostOneActive == Cardinality(Unfinished) <= 1


\* A step in which tab v finished its session: only finishSession leads from
\* a session view to the summary page.
FinishStep(v) == InSessionView(v) /\ page'[v] = "summary"

\* A step in which tab v created a session.
StartStep(v) == page[v] = "start" /\ nextId' = nextId + 1

\* C2: after start() and finish() of that session getCurrentSession() is
\* absent, and the start() that follows makes the new session the current
\* one.
C2_FinishClearsCurrent ==
  [][\A v \in Views :
       /\ FinishStep(v) => getCurrentSession(store') = NoSession
       /\ StartStep(v) /\ getCurrentSession(store) = NoSession
            => getCurrentSession(store').id = nextId]_vars

\* C3: a newly started volume session with boulderCount >= 0 has exactly
\* boulderCount attempts, the i-th with order i, none with a result; this
\* holds of the record written to the store and of the copy the tab holds.
FreshAttempts(s) ==
  /\ Len(s.attempts) = s.boulderCount
  /\ \A i \in 1..Len(s.attempts) :
       /\ s.attempts[i].order = i
       /\ s.attempts[i].result = "undefined"
       /\ s.attempts[i].timestamp = Undefined
  /\ \A i, j \in 1..Len(s.attempts) :
       s.attempts[i].id = s.attempts[j].id => i = j

C3_NewVolumeSession ==
  [][\A v \in Views :
       StartStep(v) /\ page'[v] = "active" /\ session'[v].boulderCount >= 0
         => /\ FreshAttempts(session'[v])
            /\ \E i \in 1..Len(StoredNext) :
                 /\ StoredNext[i].id = nextId
                 /\ StoredNext[i].boulderCount = session'[v].boulderCount
                 /\ FreshAttempts(StoredNext[i])]_vars

C3_Witness ==
  \E v \in Views :
    /\ page[v] = "active"
    /\ session[v].boulderCount = 2
    /\ Len(session[v].attempts) = 2
    /\ unlogged(session[v]) = 2

\* C4: every stored volume session has attempts.length = boulderCount, and
\* the boulderCount stored under an id never changes.
C4_AttemptsMatchCount ==
  [][\A i \in 1..Len(StoredNext) :
       StoredNext[i].sessionType = "volume"
         => /\ Len(StoredNext[i].attempts) = StoredNext[i].boulderCount
            /\ \A j \in 1..Len(StoredNow) :
                 StoredNow[j].id = StoredNext[i].id
                   => StoredNow[j].boulderCount = StoredNext[i].boulderCount]_vars

\* C5: every stored session, and every copy of a session a tab holds, has
\* endTime set if and only if isFinished is true.
EndTimeIffFinished(s) == (s.endTime # Undefined) <=> s.isFinished

C5_EndTimeIffFinished ==
  /\ \A i \in 1..Len(Stored) : EndTimeIffFinished(Stored[i])
  /\ \A v \in Views : session[v] # NoSession => EndTimeIffFinished(session[v])

C5_Witness ==
  \E i \in 1..Len(Stored) :
    /\ Stored[i].id \notin LegacyIds
    /\ Stored[i].isFinished
    /\ IsISO(Stored[i].endTime)

\* C6: once a stored record has isFinished = true, no step changes it for as
\* long as it stays in the store (only deletion affects it).
C6_FinishedIsFrozen ==
  [][\A i \in 1..Len(StoredNow) : \A j \in 1..Len(StoredNext) :
       StoredNow[i].isFinished /\ StoredNext[j].id = StoredNow[i].id
         => StoredNext[j] = StoredNow[i]]_vars

\* A step in which handleBreakSession of tab v deleted the tab's session.
AbandonStep(v) ==
  /\ InSessionView(v)
  /\ WriteError(store, session[v].id) = "none"
  /\ handleBreakSession(v)

Others(list, id) == SelectSeq(list, LAMBDA s : s.id # id)

\* C7: abandoning the active session removes it: no stored session has its
\* id, getCurrentSession() is absent, every other stored session is
\* unchanged, and an id that has left the store never comes back.
C7_AbandonRemoves ==
  [][/\ \A v \in Views :
          AbandonStep(v)
            => /\ \A j \in 1..Len(StoredNext) : StoredNext[j].id # session[v].id
               /\ getCurrentSession(store') = NoSession
               /\ Others(StoredNow, session[v].id) = StoredNext
     /\ \A id \in 1..(nextId - 1) :
          (\A i \in 1..Len(StoredNow) : StoredNow[i].id # id)
            => (\A j \in 1..Len(StoredNext) : StoredNext[j].id # id)]_vars


\* A step of tab v that is one of the persisting lifecycle operations on the
\* tab's session: logAttempt, toggleSet (the branches of handleSetToggle that
\* write, and the completion of a hang set by its timer), finish, abandon.
LifecycleOp(v) ==
  \/ \E i \in 1..MaxBoulders, result \in AttemptResults, comment \in Comments :
       handleLogAttempt(v, i, result, comment)
  \/ \E k \in 1..4, i \in 1..NumSets :
       /\ handleSetToggle(v, Exercises[k], i)
       /\ ~(Exercises[k] = "hang" /\ ~SetsOf(session[v], "hang")[i].completed)
  \/ handleHangComplete(v) /\ timer[v].pendingHangSetId # 0
  \/ handleFinishSession(v) /\ unlogged(session[v]) <= 5
  \/ handleFinishTraining(v) /\ totalCompleted(session[v]) >= totalSets(session[v])
  \/ ConfirmFinish(v)
  \/ handleBreakSession(v)

\* C8: a lifecycle operation on a session whose id is not in the store
\* throws NotFound, leaves the stored collection as it was and does not
\* create the session; the tab's own state is untouched.
C8_MissingIdThrows ==
  [][\A v \in Views :
       LifecycleOp(v) /\ session[v].id \notin {StoredNow[i].id : i \in 1..Len(StoredNow)}
         => /\ thrown'[v] = "NotFound"
            /\ StoredNext = StoredNow
            /\ session'[v] = session[v]
            /\ page'[v] = page[v]]_vars

C8_Witness ==
  \E v \in Views :
    /\ thrown[v] = "NotFound"
    /\ InSessionView(v)
    /\ session[v].id \notin StoredIds

\* Every instant field of session s holds a Date (or is absent).
IsInstant(x) == x = Undefined \/ IsDate(x)

InstantsAreDates(s) ==
  /\ IsDate(s.date) /\ IsDate(s.startTime) /\ IsInstant(s.endTime)
  /\ IF s.sessionType = "training"
     THEN \A k \in 1..4 : \A i \in 1..Len(SetsOf(s, Exercises[k])) :
            IsInstant(SetsOf(s, Exercises[k])[i].timestamp)
     ELSE \A i \in 1..Len(s.attempts) : IsInstant(s.attempts[i].timestamp)

\* C9: for every session a tab holds, deserialize(serialize(s)) = s, and
\* every instant field of a session read from the store is a Date again.
C9_RoundTrip ==
  \A v \in Views :
    session[v] # NoSession
      => /\ InstantsAreDates(session[v])
         /\ deserializeSession(StringifySession(session[v])) = session[v]

-----------------------------------------------------------------------------
(* Stored histories.  The records are built as handleStartSession,          *)
(* handleLogAttempt, handleSetToggle and finishSession build them and are    *)
(* written as saveAllSessions writes them.                                   *)

\* A volume session of `count` boulders started at instant date, the first
\* `fails` of them logged as fail and the others as done.
PriorVolume(id, date, finished, level, count, fails) ==
  LET started == NewVolumeSession(id, date, level, count)
      logged == [started EXCEPT !.attempts =
                   [i \in 1..count |->
                      [started.attempts[i] EXCEPT
                         !.result = IF i <= fails THEN "fail" ELSE "done",
                         !.timestamp = Date(date)]]]
  IN IF finished THEN FinishedSession(logged, date) ELSE logged

\* A training session started at instant date with the default weights,
\* every set of it completed.
PriorTraining(id, date, finished) ==
  LET started == NewTrainingSession(id, date,
                   [hang |-> FormInit.hangWeight, pullup |-> FormInit.pullupWeight,
                    bench |-> FormInit.benchWeight,
                    trapBar |-> FormInit.trapBarWeight])
      Done(set) == [set EXCEPT !.completed = TRUE, !.timestamp = Date(date)]
      done == [started EXCEPT !.trainingData =
                 [@ EXCEPT !.hangSets = MapSeq(@, Done),
                           !.pullupSets = MapSeq(@, Done),
                           !.benchSets = MapSeq(@, Done),
                           !.trapBarSets = MapSeq(@, Done)]]
  IN IF finished THEN FinishedSession(done, date) ELSE done

\* Identifiers of the sessions of a drawn history.
HistoryId(i) == 90 + i

\* Levels, <<boulderCount, fails>> pairs and ages (ticks before the first
\* instant of the behaviour) of the one prior volume session.
PriorLevels == {1, 2, 10}
PriorProfiles ==
  {<<4, 0>>, <<4, 1>>, <<4, 2>>, <<4, 3>>, <<4, 4>>, <<10, 1>>, <<10, 8>>,
   <<10, 9>>, <<0, 0>>}
PriorAges == {0, 5, 13, 14, 26, 27, 28, 39, 59}

\* A finished volume session of 20 boulders: 5 flashed, 5 done, 5 failed and
\* 5 never logged.
MixedVolume(id, date) ==
  LET started == NewVolumeSession(id, date, 5, 20)
      Result(i) == IF i <= 5 THEN "flash" ELSE IF i <= 10 THEN "done" ELSE "fail"
      logged == [started EXCEPT !.attempts =
                   [i \in 1..20 |->
                      IF i <= 15
                      THEN [started.attempts[i] EXCEPT !.result = Result(i),
                                                       !.timestamp = Date(date)]
                      ELSE started.attempts[i]]]
  IN FinishedSession(logged, date)

MixedPayload == saveAllSessions(<<MixedVolume(HistoryId(1), 0)>>)

OnePriorPayloads ==
  {saveAllSessions(<<PriorVolume(HistoryId(1), 1 - age, TRUE, level,
                                 profile[1], profile[2])>>) :
     level \in PriorLevels, profile \in PriorProfiles, age \in PriorAges}

\* Histories of several sessions: either variant, finished or not, started
\* at one of two instants.
HistoryDates == {-4, -2}
HistoryKinds == {"volume", "training"} \X BOOLEAN \X HistoryDates

HistorySession(i, kind) ==
  IF kind[1] = "volume"
  THEN PriorVolume(HistoryId(i), kind[3], kind[2], 5, 1, 0)
  ELSE PriorTraining(HistoryId(i), kind[3], kind[2])

HistoryPayloads ==
  {saveAllSessions([i \in 1..MaxHistory |-> HistorySession(i, kinds[i])]) :
     kinds \in [1..MaxHistory -> HistoryKinds]}

\* Training sessions of ProfileSets sets per exercise, the first done[ex] of
\* them completed, started with weights other than the defaults.
ProfileSets == 2
ProfileWeights == [hang |-> 25, pullup |-> 50, bench |-> 125, trapBar |-> 225]

ProfileTraining(id, date, done) ==
  LET started == NewTrainingSession(id, date, ProfileWeights)
      Sets(ex) ==
        [i \in 1..ProfileSets |->
           [NewSet(id, ex, i) EXCEPT
              !.completed = i <= done[ex],
              !.timestamp = IF i <= done[ex] THEN Date(date) ELSE Undefined]]
      trained == [started EXCEPT !.trainingData =
                    [@ EXCEPT !.hangSets = Sets("hang"),
                              !.pullupSets = Sets("pullup"),
                              !.benchSets = Sets("bench"),
                              !.trapBarSets = Sets("trapbar")]]
  IN trained

ProfileSession(id, date, done) ==
  FinishedSession(ProfileTraining(id, date, done), date)

\* The session as an application without bench press and trap bar wrote
\* it: benchWeight, trapBarWeight, benchSets and trapBarSets are absent.
WithoutBenchAndTrapBar(s) ==
  [s EXCEPT !.trainingData =
     [f \in DOMAIN @ \ {"benchWeight", "trapBarWeight", "benchSets",
                         "trapBarSets"} |-> @[f]]]

\* The session with bench and trap bar weights but no sets for them.
WithEmptyBenchAndTrapBar(s) ==
  [s EXCEPT !.trainingData = [@ EXCEPT !.benchSets = <<>>, !.trapBarSets = <<>>]]

ProfileDone == [{"hang", "pullup", "bench", "trapbar"} -> 0..ProfileSets]

ProfilePayloads ==
  LET Full(done) == ProfileSession(HistoryId(1), 0, done)
      Untouched(done) == done["bench"] = 0 /\ done["trapbar"] = 0
  IN {saveAllSessions(<<Full(done)>>) : done \in ProfileDone}
     \cup {saveAllSessions(<<WithoutBenchAndTrapBar(Full(done))>>) :
             done \in {x \in ProfileDone : Untouched(x)}}
     \cup {saveAllSessions(<<WithEmptyBenchAndTrapBar(Full(done))>>) :
             done \in {x \in ProfileDone : Untouched(x)}}

InitHistory ==
  /\ InitWith({NoItem, MixedPayload} \cup OnePriorPayloads \cup HistoryPayloads
              \cup ProfilePayloads)
  /\ setItemError = "none"

\* One tab browsing and pruning its history.
NextHistory ==
  \E v \in {"A"} :
    \/ GoHome(v)
    \/ \E i \in 1..Len(sessions[v]) : OpenSummary(v, i)
    \/ \E i \in 1..Len(sessions[v]) : confirmDelete(v, i)
    \/ handleDelete(v)

SpecHistory == InitHistory /\ [][NextHistory]_vars

\* A tab that opens the application while an unfinished session is stored,
\* as a tab closed in the middle of a session left it: a training session
\* with none of its sets done, with its hang and pullup sets done, or with
\* every set done; or a volume session with nothing logged.
NoneDone == [ex \in {"hang", "pullup", "bench", "trapbar"} |-> 0]
HangAndPullupDone ==
  [ex \in {"hang", "pullup", "bench", "trapbar"} |->
     IF ex \in {"hang", "pullup"} THEN ProfileSets ELSE 0]
AllDone == [ex \in {"hang", "pullup", "bench", "trapbar"} |-> ProfileSets]

ActiveBoulderCounts == {6, 7}

ActivePayloads ==
  {saveAllSessions(<<ProfileTraining(HistoryId(1), 0, done)>>) :
     done \in {NoneDone, HangAndPullupDone, AllDone}}
  \cup {saveAllSessions(
           <<WithoutBenchAndTrapBar(ProfileTraining(HistoryId(1), 0, done))>>) :
          done \in {NoneDone, HangAndPullupDone}}
  \cup {saveAllSessions(<<NewVolumeSession(HistoryId(1), 0, 5, count)>>) :
          count \in ActiveBoulderCounts}

InitActive ==
  /\ InitWith(ActivePayloads)
  /\ setItemError = "none"

\* One tab working through the session; the countdowns run in real time.
NextActive ==
  \E v \in {"A"} :
    \/ GoHome(v)
    \/ \E i \in 1..MaxBoulders, result \in {"done", "fail"} :
         handleLogAttempt(v, i, result, "undefined")
    \/ handleFinishSession(v)
    \/ ConfirmFinish(v)
    \/ CancelFinish(v)
    \/ handleBreakSession(v)
    \/ \E k \in 1..4, i \in 1..ProfileSets : handleSetToggle(v, Exercises[k], i)
    \/ Elapse(v)
    \/ handleHangComplete(v)
    \/ handleRestComplete(v, TRUE)
    \/ RestPause(v)
    \/ handleFinishTraining(v)

SpecActive == InitActive /\ [][NextActive]_vars

\* C11: migrating the payload a read leaves behind changes nothing, a read
\* of a version 2 payload migrates nothing and writes nothing, and whether
\* to migrate depends on the version field alone, not on the records.
Unmigrated == [kind |-> "json", version |-> 2, sessions |-> <<LegacySession(1)>>]

Idempotent(st) ==
  st.kind = "json"
    => /\ migrateV1toV2(Migrated(st)) = Migrated(st)
       /\ ~NeedsMigration(Migrated(st))
       /\ Migrated(Migrated(st)) = Migrated(st)

ReadStep(v) == GoHome(v) \/ \E i \in 1..Len(sessions[v]) : OpenSummary(v, i)

C11_MigrationIdempotent ==
  [][/\ Idempotent(store) /\ Idempotent(store')
     /\ NeedsMigration(Unmigrated) = FALSE /\ Migrated(Unmigrated) = Unmigrated
     /\ \A v \in Views :
          ReadStep(v) /\ store.kind = "json" /\ store.version >= 2
            => store' = store]_vars

C11_Witness ==
  /\ store.kind = "json" /\ store.version = 2
  /\ \A v \in Views :
       /\ page[v] = "start"
       /\ Len(sessions[v]) = 1
       /\ sessions[v][1].id \in LegacyIds
       /\ sessions[v][1].sessionType = "volume"

\* C12: getAllSessions returns the empty sequence, and throws nothing,
\* whenever the stored text is absent, cannot be parsed, or is not a
\* {version, sessions} payload of Session records.
IsSessionRecord(s) == s.date # Undefined /\ s.startTime # Undefined

WellFormed(st) ==
  st.kind = "json" /\ \A i \in 1..Len(st.sessions) : IsSessionRecord(st.sessions[i])

C12_ReadNeverFails ==
  /\ ~WellFormed(store) => getAllSessions(store) = <<>>
  /\ \A v \in Views : thrown[v] \in {"none", "NotFound", "QuotaExceeded",
                                      "StorageUnavailable"}

\* A step in which tab v pressed "Start Session".
StartOp(v) ==
  \/ \E level \in FormLevels \cup {form[v].level},
        boulderCount \in FormBoulderCounts \cup {form[v].boulderCount} :
       StartVolume(v, level, boulderCount)
  \/ StartTraining(v)

\* A step in which tab v called saveAllSessions: saveSession, or
\* updateSession / deleteSession for an id the store holds.
SaveAllStep(v) ==
  \/ StartOp(v)
  \/ /\ LifecycleOp(v) \/ handleDelete(v)
     /\ ~NotFound(store, session[v].id)
  \/ \E i \in 1..Len(sessions[v]) :
       confirmDelete(v, i) /\ ~NotFound(store, sessions[v][i].id)

\* C13: when setItem rejects the write, saveSession, updateSession and
\* deleteSession throw QuotaExceeded if the rejection was for size and
\* StorageUnavailable otherwise, and the stored payload stays as it was.
C13_WriteRejected ==
  [][\A v \in Views :
       SaveAllStep(v) /\ Rejects
         => /\ thrown'[v] = IF setItemError = "QuotaExceededError"
                            THEN "QuotaExceeded" ELSE "StorageUnavailable"
            /\ store' = store]_vars

C13_Witness ==
  \E v \in Views :
    /\ thrown[v] = "QuotaExceeded"
    /\ InSessionView(v)
    /\ session[v].id \in StoredIds

\* A step in which tab v called updateSession(s) for its session:
\* logAttempt, toggleSet, hang completion, finish.
\* (A handler that throws leaves the same step whichever handler it was; a
\* break that does not throw is the one lifecycle step that deletes.)
UpdateStep(v) ==
  /\ LifecycleOp(v)
  /\ handleBreakSession(v) => WriteError(store, session[v].id) # "none"

\* The session passed to updateSession in an UpdateStep that did not throw.
UpdateArgument(v) ==
  IF page'[v] = page[v] THEN session'[v]
  ELSE FinishedSession(session[v], clock)

\* C14: updateSession(s) for a stored id replaces the record of that id by
\* s and leaves the number, the order and every other record as they were;
\* for an id that is not stored it throws NotFound and the store stays as it
\* was.
C14_UpdateReplacesOne ==
  [][\A v \in Views :
       UpdateStep(v)
         => IF NotFound(store, session[v].id)
            THEN thrown'[v] = "NotFound" /\ store' = store
            ELSE thrown'[v] = "none"
                   => /\ Len(StoredNext) = Len(StoredNow)
                      /\ \A i \in 1..Len(StoredNow) :
                           StoredNext[i] =
                             IF StoredNow[i].id = session[v].id
                             THEN StringifySession(UpdateArgument(v))
                             ELSE StoredNow[i]]_vars

C14_Witness ==
  \E v \in Views :
    /\ page[v] = "active"
    /\ thrown[v] = "none"
    /\ Len(Stored) >= 2
    /\ \E i \in 1..Len(Stored) :
         /\ Stored[i].id = session[v].id
         /\ unlogged(Stored[i]) < Len(Stored[i].attempts)

\* What a step of tab v that called deleteSession(id) must have done.
DeleteEffect(v, id) ==
  IF NotFound(store, id)
  THEN thrown'[v] = "NotFound" /\ store' = store
  ELSE thrown'[v] = "none"
         => /\ StoredNext = Others(StoredNow, id)
            /\ Len(StoredNext) = Len(StoredNow) - 1

\* C15: deleteSession(id) for an id that is not stored throws NotFound and
\* leaves the store as it was; for a stored id it removes that record and
\* leaves every other record as it was.
C15_DeleteRemovesOne ==
  [][\A v \in Views :
       /\ handleBreakSession(v) \/ handleDelete(v)
            => DeleteEffect(v, session[v].id)
       /\ \A i \in 1..Len(sessions[v]) :
            confirmDelete(v, i) => DeleteEffect(v, sessions[v][i].id)]_vars

C15_Witness ==
  /\ \E id \in 2..(nextId - 1) : id \notin StoredIds
  /\ Len(Stored) >= 1
  /\ \A v \in Views : thrown[v] = "none"

\* The finished sessions of variant typ among the sessions read.
Candidates(all, typ) ==
  {i \in 1..Len(all) : all[i].sessionType = typ /\ all[i].isFinished}

\* r is the candidate of the latest date, the first of them in stored order.
IsLast(r, all, typ) ==
  IF Candidates(all, typ) = {} THEN r = NoSession
  ELSE \E i \in Candidates(all, typ) :
         /\ r = all[i]
         /\ \A j \in Candidates(all, typ) :
              /\ GetTime(all[j].date) <= GetTime(all[i].date)
              /\ GetTime(all[j].date) = GetTime(all[i].date) => i <= j

\* C16: getLastVolumeSession / getLastTrainingSession return the finished
\* session of their variant with the latest date, the earliest stored of
\* those on a tie, and null when there is none; never an unfinished session
\* or one of the other variant.
C16_LastFinished ==
  /\ IsLast(getLastVolumeSession(store), getAllSessions(store), "volume")
  /\ IsLast(getLastTrainingSession(store), getAllSessions(store), "training")

C16_Witness ==
  /\ page["A"] = "start"
  /\ Len(Stored) = 2
  /\ Stored[1].sessionType = "volume" /\ Stored[2].sessionType = "volume"
  /\ Stored[1].isFinished /\ Stored[2].isFinished
  /\ Stored[1].date = Stored[2].date
  /\ getLastVolumeSession(store).id = Stored[1].id
  /\ getLastTrainingSession(store) = NoSession

\* A step in which StartView of tab v computed its recommendations: its mount
\* effect ran with no session active, or confirmDelete deleted a session.
\* They are computed from the store the step leaves, at the instant `clock`.
Recomputed(v) ==
  /\ page'[v] = "start"
  /\ thrown'[v] = "none"
  /\ \/ GoHome(v)
     \/ handleDelete(v)
     \/ handleBreakSession(v)
     \/ \E i \in 1..Len(sessions[v]) : confirmDelete(v, i)

\* The fail rate of s (attempts failed or not logged, in percent of
\* boulderCount; 0 for boulderCount 0) is below / above p percent.
Fails(s) ==
  Cardinality({i \in 1..Len(s.attempts) :
                 s.attempts[i].result \in {"fail", "undefined"}})
FailRateBelow(s, p) ==
  IF s.boulderCount = 0 THEN 0 < p
  ELSE IF s.boulderCount > 0 THEN 100 * Fails(s) < p * s.boulderCount
  ELSE 100 * Fails(s) > p * s.boulderCount
FailRateAbove(s, p) ==
  IF s.boulderCount = 0 THEN 0 > p
  ELSE IF s.boulderCount > 0 THEN 100 * Fails(s) > p * s.boulderCount
  ELSE 100 * Fails(s) < p * s.boulderCount

PerformanceStep(s) ==
  IF FailRateBelow(s, 25) THEN 1 ELSE IF FailRateAbove(s, 75) THEN -1 ELSE 0

\* Whole days from the date of s to instant now.
WholeDays(s, now) == (now - GetTime(s.date)) \div TicksPerDay

DecayStep(days) == IF days > 14 THEN 2 ELSE IF days >= 8 THEN 1 ELSE 0

AtLeast1(n) == IF n < 1 THEN 1 ELSE n

\* C17: with a prior session less than 8 days old the recommended level is
\* its targetLevel, plus 1 for a fail rate below 25, minus 1 for a fail rate
\* above 75, unchanged from 25 to 75 inclusive (never below 1); targetLevel
\* 10 with 1 of 10 failed 3 days ago gives 11.
C17_PerformanceStep ==
  [][/\ \A v \in Views :
          Recomputed(v) /\ getLastVolumeSession(store') # NoSession
            => LET last == getLastVolumeSession(store')
               IN WholeDays(last, clock) < 8
                    => form'[v].level =
                         AtLeast1(last.targetLevel + PerformanceStep(last))
     /\ getRecommendation(
          PriorVolume(1, clock - 3 * TicksPerDay, TRUE, 10, 10, 1),
          clock).level = 11]_vars

C17_Witness ==
  /\ page["A"] = "start"
  /\ form["A"].level = 11
  /\ Len(Stored) = 1
  /\ Stored[1].targetLevel = 10
  /\ Fails(Stored[1]) = 1 /\ Stored[1].boulderCount = 10

\* C18: the level is further lowered by 2 when more than 14 whole days have
\* passed since the prior session's date, by 1 for 8 to 14 days and not at
\* all for fewer, on top of the performance step (never below 1);
\* targetLevel 10 with 8 of 10 failed 20 days ago gives 7.
C18_TimeDecay ==
  [][/\ \A v \in Views :
          Recomputed(v) /\ getLastVolumeSession(store') # NoSession
            => LET last == getLastVolumeSession(store')
               IN form'[v].level =
                    AtLeast1(last.targetLevel + PerformanceStep(last)
                             - DecayStep(WholeDays(last, clock)))
     /\ getRecommendation(
          PriorVolume(1, clock - 20 * TicksPerDay, TRUE, 10, 10, 8),
          clock).level = 7]_vars

C18_Witness ==
  /\ page["A"] = "start"
  /\ form["A"].level = 7
  /\ Len(Stored) = 1
  /\ Stored[1].targetLevel = 10
  /\ Fails(Stored[1]) = 8 /\ Stored[1].boulderCount = 10

\* C19: the recommended level is never below 1, for every stored history
\* and every instant; targetLevel 1 with 9 of 10 failed 30 days ago gives 1.
C19_LevelAtLeast1 ==
  /\ getRecommendation(getLastVolumeSession(store), clock).level >= 1
  /\ \A v \in Views : form[v].level >= 1
  /\ getRecommendation(
       PriorVolume(1, clock - 30 * TicksPerDay, TRUE, 1, 10, 9), clock).level = 1

C19_Witness ==
  /\ page["A"] = "start"
  /\ form["A"].level = 1
  /\ Len(Stored) = 1
  /\ Stored[1].targetLevel = 1
  /\ Fails(Stored[1]) = 9 /\ Stored[1].boulderCount = 10
  /\ WholeDays(getLastVolumeSession(store), clock) >= 30

IsPercentage(rate, n, d) == rate[2] > 0 /\ rate[1] * d = 100 * n * rate[2]

\* The volume sessions a reader of the store gets.
VolumeSessionsRead ==
  {s \in {getAllSessions(store)[i] : i \in 1..Len(getAllSessions(store))} :
     isVolumeSession(s)}

SameInputs ==
  /\ getLastVolumeSession(store') = getLastVolumeSession(store)
  /\ getLastTrainingSession(store') = getLastTrainingSession(store)

\* The form of tab v holds what the recommenders returned for the sessions
\* now stored, at this or an earlier instant.
HoldsEarlierResult(v) ==
  /\ page[v] = "start"
  /\ \E t \in 1..clock : form[v] = Recommended(store, t)

TrainingPart(f) ==
  [hangWeight |-> f.hangWeight, pullupWeight |-> f.pullupWeight,
   benchWeight |-> f.benchWeight, trapBarWeight |-> f.trapBarWeight]

\* The training recommender returns the same weights for the same session,
\* and computing the recommendations writes nothing.
C22_TrainingPart ==
  [][\A v \in Views :
       /\ Recomputed(v) /\ SameInputs /\ HoldsEarlierResult(v)
            => TrainingPart(form'[v]) = TrainingPart(form[v])
       /\ GoHome(v) /\ ~NeedsMigration(store) => store' = store]_vars

\* C22: a recommender called again with the same explicit inputs (the last
\* finished session of its variant) returns the same recommendation,
\* whatever happened in between, and computing a recommendation changes
\* neither the store nor the session passed in.
C22_Deterministic ==
  [][\A v \in Views :
       /\ Recomputed(v) /\ SameInputs /\ HoldsEarlierResult(v)
            => form'[v] = form[v]
       /\ GoHome(v) /\ ~NeedsMigration(store) => store' = store]_vars

\* Every set of the sequence in field f of td is completed, and there is one;
\* an absent sequence has none.
AllSetsDone(td, f) ==
  /\ f \in DOMAIN td
  /\ Len(td[f]) > 0
  /\ \A i \in 1..Len(td[f]) : td[f][i].completed

\* The weight in field f of td, `absent` when td has no such field, plus
\* 2.5 kg when the sets in field g are all done.
NextWeight(td, f, absent, g) ==
  (IF f \in DOMAIN td THEN td[f] ELSE absent)
  + (IF AllSetsDone(td, g) THEN 25 ELSE 0)

\* C23: with no finished training session the recommended weights are 0, 0,
\* 10 and 20 kg; otherwise each exercise's weight is the prior one plus
\* 2.5 kg if and only if that exercise has sets and all of them are completed,
\* whatever the other exercises did, an absent bench / trap bar weight
\* counting as 10 / 20 kg and absent sets as not completed.
C23_TrainingProgression ==
  [][\A v \in Views :
       Recomputed(v)
         => LET last == getLastTrainingSession(store')
            IN IF Candidates(getAllSessions(store'), "training") = {}
               THEN /\ form'[v].hangWeight = 0
                    /\ form'[v].pullupWeight = 0
                    /\ form'[v].benchWeight = 100
                    /\ form'[v].trapBarWeight = 200
               ELSE LET td == last.trainingData
                    IN /\ form'[v].hangWeight =
                            NextWeight(td, "hangWeight", 0, "hangSets")
                       /\ form'[v].pullupWeight =
                            NextWeight(td, "pullupWeight", 0, "pullupSets")
                       /\ form'[v].benchWeight =
                            NextWeight(td, "benchWeight", 100, "benchSets")
                       /\ form'[v].trapBarWeight =
                            NextWeight(td, "trapBarWeight", 200, "trapBarSets")]_vars

C23_Witness ==
  /\ page["A"] = "start"
  /\ Len(Stored) = 1
  /\ Stored[1].sessionType = "training"
  /\ "benchWeight" \notin DOMAIN Stored[1].trainingData
  /\ "trapBarSets" \notin DOMAIN Stored[1].trainingData
  /\ AllSetsDone(Stored[1].trainingData, "hangSets")
  /\ ~AllSetsDone(Stored[1].trainingData, "pullupSets")
  /\ CountCompleted(Stored[1].trainingData.pullupSets) = 1
  /\ form["A"].hangWeight = Stored[1].trainingData.hangWeight + 25
  /\ form["A"].pullupWeight = Stored[1].trainingData.pullupWeight
  /\ form["A"].benchWeight = 100
  /\ form["A"].trapBarWeight = 200

\* What getAllSessions returns for the version 1 payload of the application
\* before session types: its sessions, each with sessionType 'volume'.
FullyMigrated(st) ==
  [i \in 1..Len(st.sessions) |->
     deserializeSession([st.sessions[i] EXCEPT !.sessionType = "volume"])]

\* C30: when setItem rejects the write of the migrated payload inside
\* getAllSessions, the call still returns the migrated sessions and throws
\* nothing, and the stored payload is still the version 1 payload, so the
\* next read migrates again.
C30_MigrationSaveSwallowed ==
  [][\A v \in Views :
       ReadStep(v) /\ NeedsMigration(store) /\ Rejects
         => /\ store' = store
            /\ NeedsMigration(store')
            /\ thrown'[v] = "none"
            /\ getAllSessions(store) = FullyMigrated(store)
            /\ page'[v] = "start"
                 => sessions'[v] =
                      SelectSeq(FullyMigrated(store), LAMBDA s : s.isFinished)
            /\ page'[v] = "summary"
                 => \E i \in 1..Len(store.sessions) :
                      session'[v] = FullyMigrated(store)[i]]_vars

C30_Witness ==
  \E v \in Views :
    /\ Rejects
    /\ store.kind = "json" /\ store.version = 1
    /\ store.sessions[1].sessionType = "undefined"
    /\ page[v] = "summary"
    /\ session[v].sessionType = "volume"
    /\ session[v].id = store.sessions[1].id
    /\ thrown[v] = "none"

\* The hang sets of the stored session with this id (none when it is gone).
StoredHangSets(sessions_, id) ==
  IF \E i \in 1..Len(sessions_) : sessions_[i].id = id
  THEN LET i == CHOOSE i \in 1..Len(sessions_) : sessions_[i].id = id
       IN IF sessions_[i].sessionType = "training"
          THEN sessions_[i].trainingData.hangSets ELSE <<>>
  ELSE <<>>

IsDone(sets, id) == \E i \in 1..Len(sets) : sets[i].id = id /\ sets[i].completed
IsOpenSet(sets, id) ==
  \E i \in 1..Len(sets) : sets[i].id = id /\ ~sets[i].completed

\* A hang phase of tab v ends in this step and its handler writes hang set
\* id as completed: the hang timer is open for the set (Skip), or a
\* completion callback is due that was created for the set or when the set
\* was completed.
HangPhaseEnds(v, id) ==
  \/ timer[v].showHangTimer /\ timer[v].pendingHangSetId = id
  \/ \E k \in 1..Len(timeouts[v]) :
       /\ timeouts[v][k].handler = "hang"
       /\ timeouts[v][k].pendingHangSetId # 0
       /\ \/ timeouts[v][k].pendingHangSetId = id
          \/ IsDone(timeouts[v][k].session.trainingData.hangSets, id)

PrepStarts(v) ==
  /\ page'[v] = "training"
  /\ timer'[v].showPrepTimer
  /\ ~(page[v] = "training" /\ timer[v].showPrepTimer)

\* C25: no prep phase starts for a session of which a hang set is completed
\* (a hang set is completed only by the end of its hang phase), also after
\* the view was left and the session resumed.
C25_PrepOncePerSession ==
  [][\A v \in {"A"} :
       PrepStarts(v)
         => \A i \in 1..Len(session'[v].trainingData.hangSets) :
              ~session'[v].trainingData.hangSets[i].completed]_vars

\* Within one mount of the view the prep phase does run once only: it opens
\* only while isFirstHangSet, which the end of the first hang phase clears.
C25_OncePerMount ==
  [][\A v \in {"A"} :
       /\ PrepStarts(v) => timer[v].isFirstHangSet /\ page[v] = "training"
       /\ page[v] = "training" /\ page'[v] = "training"
          /\ ~timer[v].isFirstHangSet /\ timer'[v].isFirstHangSet
            => timer'[v] = TimerInit]_vars

\* The rest phase of tab v ends in this step, by its handler as the current
\* render defined it: Skip, or the callback of a countdown that ran out
\* during this render.  (A view that mounts again has no lastExercise.)
RestPhaseEnds(v) ==
  /\ page[v] = "training" /\ page'[v] = "training"
  /\ timer[v].showRestTimer
  /\ ~timer'[v].showRestTimer
  /\ timer'[v].lastExercise = timer[v].lastExercise
  /\ \/ timeouts'[v] = timeouts[v]
     \/ \A k \in 1..Len(timeouts[v]) :
          timeouts[v][k] = Closure(v, timeouts[v][k].handler)

\* The incomplete hang set of lowest order (0 when every hang set is done).
NextHangSet(sets) ==
  IF \E i \in 1..Len(sets) : ~sets[i].completed
  THEN LET open == {i \in 1..Len(sets) : ~sets[i].completed}
           first == CHOOSE i \in open :
                      \A j \in open : sets[i].order <= sets[j].order
       IN sets[first].id
  ELSE 0

RestStaysOpen(v) ==
  /\ page[v] = "training" /\ page'[v] = "training"
  /\ timer[v].showRestTimer /\ timer'[v].showRestTimer
  /\ timer'[v].lastExercise = timer[v].lastExercise

\* The displayed remaining time stands still while the rest timer is paused,
\* and neither Pause nor Resume changes it.
C27_PauseKeepsRemaining ==
  [][\A v \in {"A"} :
       RestStaysOpen(v) /\ timeouts[v] = <<>>
       /\ (timer[v].restTimerPaused \/ timer'[v].restTimerPaused)
         => countdown'[v].timeRemaining["rest"]
              = countdown[v].timeRemaining["rest"]]_vars

\* C27: the rest countdown reaches zero when it has run, un-paused, for its
\* duration in total (restRun counts the units of 500 ms during which the
\* rest timer was open and not paused).
C27_RestRunsItsDuration ==
  [][\A v \in {"A"} :
       RestStaysOpen(v)
       /\ countdown[v].timeRemaining["rest"] > 0
       /\ countdown'[v].timeRemaining["rest"] = 0
         => countdown'[v].restRun = RestDuration * IntervalTicks]_vars

\* The timer phase that callback c of tab v was created for is still the
\* open one: the view is the mount that created c, and the timer of c is
\* open with the state c closed over.
StillCurrent(v, c) ==
  /\ c.mounted
  /\ page[v] = "training"
  /\ IsOpen(timer[v], c.handler)
  /\ c = Closure(v, c.handler)

\* The callbacks that are due in tab v run in this step (a handler leaves
\* them pending, a view that unmounts leaves them pending and unmounted).
CallbacksRun(v) ==
  /\ timeouts[v] # <<>>
  /\ timeouts'[v] # timeouts[v]
  /\ timeouts'[v] # MapSeq(timeouts[v], Unmounted)

\* C28: a completion callback runs only while the view that created it is
\* mounted and its timer phase is the open one; after the view was left or
\* the phase closed, the callback of a countdown that had reached zero does
\* not run, and what is stored does not change.
C28_NoCallbackAfterCancel ==
  [][\A v \in {"A"} :
       CallbacksRun(v)
         => \A k \in 1..Len(timeouts[v]) :
              \/ StillCurrent(v, timeouts[v][k])
              \/ store' = store]_vars

\* A countdown that is cancelled before it reached zero does stay silent:
\* every callback was scheduled by a countdown that reached zero, and when
\* no callback is due the passing of time changes neither the store nor the
\* session on screen.
C28_SilentBeforeZero ==
  [][\A v \in {"A"} :
       /\ timeouts'[v] # <<>> /\ timeouts'[v] # timeouts[v]
            => \/ \A k \in 1..Len(timeouts'[v]) :
                    /\ ReachesZero(countdown[v], timer[v], timeouts'[v][k].handler)
                    /\ timeouts'[v][k] = Closure(v, timeouts'[v][k].handler)
               \/ timeouts'[v] = MapSeq(timeouts[v], Unmounted)
       /\ timeouts[v] = <<>> /\ countdown'[v] # countdown[v]
          /\ timer'[v] = timer[v] /\ clock' = clock
            => store' = store /\ session' = session]_vars

\* The number of sets of field f of training data td, and of completed ones,
\* an absent field counting as no sets.
SetCount(td, f) == IF f \in DOMAIN td THEN Len(td[f]) ELSE 0
DoneCount(td, f) ==
  IF f \in DOMAIN td
  THEN Cardinality({i \in 1..Len(td[f]) : td[f][i].completed})
  ELSE 0

TotalSetCount(td) ==
  SetCount(td, "hangSets") + SetCount(td, "pullupSets")
  + SetCount(td, "benchSets") + SetCount(td, "trapBarSets")
TotalDoneCount(td) ==
  DoneCount(td, "hangSets") + DoneCount(td, "pullupSets")
  + DoneCount(td, "benchSets") + DoneCount(td, "trapBarSets")

\* The completion gate fires for session s.
GateFires(s) ==
  IF s.sessionType = "volume"
  THEN Cardinality({i \in 1..Len(s.attempts) :
                      s.attempts[i].result = "undefined"}) > 5
  ELSE TotalDoneCount(s.trainingData) < TotalSetCount(s.trainingData)

StoredUnfinished(sessions_, id) ==
  \E i \in 1..Len(sessions_) : sessions_[i].id = id /\ ~sessions_[i].isFinished

\* C29: a request to finish opens the confirmation only when the gate fires
\* for the session on screen, and then nothing is stored and the session
\* stays on screen, active and stored as unfinished, for as long as the
\* confirmation is open; the session is finished (stored with isFinished and
\* shown as summary) only when the gate does not fire or the confirmation
\* was open and the caller confirmed.
C29_CompletionGate ==
  [][\A v \in {"A"} :
       /\ ~showFinishConfirm[v] /\ showFinishConfirm'[v]
            => /\ GateFires(session[v])
               /\ store' = store
               /\ session'[v] = session[v]
               /\ page'[v] = page[v]
       /\ showFinishConfirm'[v]
            => /\ page'[v] \in {"active", "training"}
               /\ ~session'[v].isFinished
               /\ StoredUnfinished(StoredNext, session'[v].id)
       /\ page[v] \in {"active", "training"} /\ page'[v] = "summary"
            => /\ showFinishConfirm[v] \/ ~GateFires(session[v])
               /\ session'[v].isFinished
               /\ session'[v].id = session[v].id
               /\ ~StoredUnfinished(StoredNext, session[v].id)
       /\ page[v] \in {"active", "training"} /\ ~showFinishConfirm[v]
          /\ ~GateFires(session[v])
            => ~showFinishConfirm'[v]]_vars

\* A volume session with exactly 5 unlogged attempts of 7 was finished: no
\* confirmation is asked for at 5.
C29_Witness ==
  /\ page["A"] = "summary"
  /\ session["A"].sessionType = "volume"
  /\ session["A"].isFinished
  /\ Len(session["A"].attempts) = 7
  /\ unlogged(session["A"]) = 5

\* The training sessions a reader of the store gets, each with the stored
\* record it was read from.
TrainingSessionsRead ==
  {<<getAllSessions(store)[i], StoredNow[i]>> : i \in
     {j \in 1..Len(getAllSessions(store)) :
        getAllSessions(store)[j].sessionType = "training"}}

\* C31: a training session read from a record without bench / trap bar
\* fields has benchWeight 10, trapBarWeight 20 and empty benchSets and
\* trapBarSets.
C31_AbsentFieldsDefaulted ==
  \A p \in TrainingSessionsRead :
    LET read == p[1].trainingData
        record == p[2].trainingData
    IN /\ "benchWeight" \notin DOMAIN record
            => "benchWeight" \in DOMAIN read
               /\ read.benchWeight = DEFAULT_BENCH_WEIGHT
       /\ "trapBarWeight" \notin DOMAIN record
            => "trapBarWeight" \in DOMAIN read
               /\ read.trapBarWeight = DEFAULT_TRAPBAR_WEIGHT
       /\ "benchSets" \notin DOMAIN record
            => "benchSets" \in DOMAIN read /\ read.benchSets = <<>>
       /\ "trapBarSets" \notin DOMAIN record
            => "trapBarSets" \in DOMAIN read /\ read.trapBarSets = <<>>

\* What deserializeSession does do: the session read has the fields of its
\* record and no others, with the instants of the session and of its hang
\* and pullup sets revived.
C31_FieldsAsStored ==
  \A p \in TrainingSessionsRead :
    /\ DOMAIN p[1].trainingData = DOMAIN p[2].trainingData
    /\ p[1] = deserializeSession(p[2])
    /\ \A f \in DOMAIN p[2].trainingData \ {"hangSets", "pullupSets"} :
         p[1].trainingData[f] = p[2].trainingData[f]

\* C32: logging attempt i of the session on screen with a result and a
\* comment gives that attempt the result, the comment as passed (the
\* comment it had is gone) and the instant of the call as timestamp; its id
\* and order, every other attempt and every other field of the session are
\* as they were, in memory and in the store.
C32_LogAttemptFrame ==
  [][\A v \in Views :
       \A i \in 1..MaxBoulders, result \in AttemptResults, comment \in Comments :
         handleLogAttempt(v, i, result, comment) /\ thrown'[v] = "none"
           => LET before == session[v]
                  after == session'[v]
              IN /\ DOMAIN after = DOMAIN before
                 /\ \A f \in DOMAIN before \ {"attempts"} : after[f] = before[f]
                 /\ Len(after.attempts) = Len(before.attempts)
                 /\ \A j \in 1..Len(before.attempts) :
                      j # i => after.attempts[j] = before.attempts[j]
                 /\ after.attempts[i].id = before.attempts[i].id
                 /\ after.attempts[i].order = before.attempts[i].order
                 /\ after.attempts[i].result = result
                 /\ after.attempts[i].comment = comment
                 /\ after.attempts[i].timestamp = Date(clock)
                 /\ \E k \in 1..Len(StoredNext) :
                      StoredNext[k] = StringifySession(after)]_vars

\* An attempt logged with a comment was logged again without one: the tab
\* that started the session logged attempt 1 as failed with a note at once;
\* the other tab opened the session after that and logged the attempt as
\* done with no comment.  The result is the later one, the note is gone.
C32_Witness ==
  \E v, w \in Views :
    /\ v # w
    /\ page[v] = "active" /\ page[w] = "active"
    /\ session[v].id = session[w].id
    /\ Len(session[v].attempts) >= 1 /\ Len(session[w].attempts) >= 1
    /\ session[w].startTime = Date(2)
    /\ session[w].attempts[1].result = "fail"
    /\ session[w].attempts[1].comment = "note"
    /\ session[w].attempts[1].timestamp = Date(3)
    /\ session[v].attempts[1].result = "done"
    /\ session[v].attempts[1].comment = "undefined"
    /\ session[v].attempts[1].timestamp = Date(clock - 1)
    /\ \E k \in 1..Len(StoredNow) :
         /\ StoredNow[k].id = session[v].id
         /\ StoredNow[k].attempts[1].result = "done"
         /\ StoredNow[k].attempts[1].comment = "undefined"

IsSet(x) == x # Undefined

\* result and timestamp of every attempt are set together, completed and
\* timestamp of every training set of every exercise likewise.
Stamped(s) ==
  IF s.sessionType = "training"
  THEN \A f \in DOMAIN s.trainingData \cap
                  {"hangSets", "pullupSets", "benchSets", "trapBarSets"} :
         \A i \in 1..Len(s.trainingData[f]) :
           s.trainingData[f][i].completed
             <=> IsSet(s.trainingData[f][i].timestamp)
  ELSE \A i \in 1..Len(s.attempts) :
         (s.attempts[i].result # "undefined") <=> IsSet(s.attempts[i].timestamp)

\* A pullup, bench or trap bar set of the session on screen changes its
\* completed in this step, which is the toggle: no callback runs, and the
\* store is written (a view that mounts again only reads).
ToggleFlips(v, ex, i) ==
  /\ page[v] = "training" /\ page'[v] = "training"
  /\ session'[v].id = session[v].id
  /\ ~CallbacksRun(v)
  /\ store' # store
  /\ i \in 1..Len(SetsOf(session[v], ex))
  /\ SetsOf(session'[v], ex)[i].completed # SetsOf(session[v], ex)[i].completed

\* C33: in every state each attempt, on screen and stored, has a timestamp
\* iff it has a result, and each training set a timestamp iff it is
\* completed; a toggle of a pullup, bench or trap bar set flips completed,
\* makes the instant of the call its timestamp when it becomes completed and
\* clears the timestamp when it becomes incomplete.
C33_TimestampIffDone ==
  [][/\ \A v \in Views :
          page'[v] \in {"active", "training", "summary"} => Stamped(session'[v])
     /\ \A k \in 1..Len(StoredNext) : Stamped(StoredNext[k])
     /\ \A v \in Views : \A ex \in {"pullup", "bench", "trapbar"} :
          \A i \in 1..ProfileSets :
            ToggleFlips(v, ex, i)
              => LET before == SetsOf(session[v], ex)[i]
                     after == SetsOf(session'[v], ex)[i]
                 IN /\ after = [before EXCEPT
                                  !.completed = ~before.completed,
                                  !.timestamp = IF before.completed
                                                THEN Undefined
                                                ELSE Date(clock)]
                    /\ \A j \in 1..Len(SetsOf(session[v], ex)) :
                         j # i => SetsOf(session'[v], ex)[j]
                                    = SetsOf(session[v], ex)[j]]_vars

\* A bench set was completed and toggled back: it is incomplete without a
\* timestamp, on screen and in the store, while another set toggled since
\* carries its instant.
C33_Witness ==
  /\ page["A"] = "training"
  /\ "benchSets" \in DOMAIN session["A"].trainingData
  /\ ~session["A"].trainingData.benchSets[1].completed
  /\ session["A"].trainingData.benchSets[1].timestamp = Undefined
  /\ session["A"].trainingData.benchSets[2].completed
  /\ session["A"].trainingData.benchSets[2].timestamp = ISO(0)
  /\ session["A"].trainingData.trapBarSets[1].completed
  /\ session["A"].trainingData.trapBarSets[1].timestamp = Date(clock - 1)
  /\ clock >= 3

\* The hang phase of tab v ends in this step by its handler as the current
\* render defined it: Skip, or the callback of the countdown that ran out
\* during this render.
HangPhaseCompletes(v) ==
  /\ page[v] = "training" /\ page'[v] = "training"
  /\ timer[v].showHangTimer
  /\ ~timer'[v].showHangTimer
  /\ timer'[v].lastExercise = "hang"
  /\ \/ timeouts'[v] = timeouts[v]
     \/ \A k \in 1..Len(timeouts[v]) :
          timeouts[v][k] = Closure(v, timeouts[v][k].handler)

StoredRecord(sessions_, id) ==
  IF \E k \in 1..Len(sessions_) : sessions_[k].id = id
  THEN sessions_[CHOOSE k \in 1..Len(sessions_) : sessions_[k].id = id]
  ELSE Undefined

\* Tab v persists a change of its copy of its active session in this step.
Persists(v) ==
  /\ page[v] \in {"active", "training"}
  /\ page'[v] = page[v]
  /\ session'[v].id = session[v].id
  /\ session'[v] # session[v]
  /\ store' # store
  /\ thrown'[v] = "none"

\* C35: a tab that persists a change of its copy of the session succeeds
\* whatever another tab has stored since the copy was read, and the stored
\* session is then that tab's copy with its change and nothing else: what
\* the store held for the session, the other tab's change included, is
\* gone, and nothing is thrown in either tab.
C35_LastWriterWins ==
  [][\A v \in Views :
       Persists(v)
         => /\ StoredRecord(StoredNext, session[v].id)
                 = StringifySession(session'[v])
            /\ \A w \in Views \ {v} :
                 /\ session'[w] = session[w]
                 /\ thrown'[w] = thrown[w]]_vars

\* Tab w started a session of two boulders and tab v opened it before
\* anything was logged; w logged attempt 1, then v logged attempt 2.  The
\* stored session holds v's attempt 2 and attempt 1 as not logged.
C35_Witness ==
  \E v, w \in Views :
    /\ v # w
    /\ page[v] = "active" /\ page[w] = "active"
    /\ session[v].id = session[w].id
    /\ Len(session[v].attempts) = 2 /\ Len(session[w].attempts) = 2
    /\ session[w].attempts[1].result # "undefined"
    /\ session[w].attempts[2].result = "undefined"
    /\ session[v].attempts[1].result = "undefined"
    /\ session[v].attempts[2].result # "undefined"
    /\ session[w].attempts[1].timestamp = Date(clock - 2)
    /\ session[v].attempts[2].timestamp = Date(clock - 1)
    /\ thrown[v] = "none" /\ thrown[w] = "none"
    /\ StoredRecord(StoredNow, session[v].id) = StringifySession(session[v])
    /\ StoredRecord(StoredNow, session[v].id).attempts[1].result = "undefined"

\* C36: a hang phase completes its hang set once: a stored hang set that is
\* completed and stays completed keeps the timestamp of its completion (to
\* be completed again it has to be toggled back first, in a step of its
\* own).
C36_CompletedOnce ==
  [][\A k \in 1..Len(StoredNow) :
       \A i \in 1..Len(StoredHangSets(StoredNow, StoredNow[k].id)) :
         LET before == StoredHangSets(StoredNow, StoredNow[k].id)
             after == StoredHangSets(StoredNext, StoredNow[k].id)
         IN before[i].completed /\ i <= Len(after) /\ after[i].completed
              => after[i].timestamp = before[i].timestamp]_vars

\* A countdown that reaches zero schedules its callback once, so at most
\* one callback is pending in a tab, and a pending callback stays as it is
\* (or unmounted, when the view is left) until it runs.
C36_OneCallbackPerExpiry ==
  [][\A v \in {"A"} :
       /\ Len(timeouts'[v]) <= 1
       /\ timeouts'[v] # <<>> /\ timeouts[v] # <<>>
            => \/ timeouts'[v] = timeouts[v]
               \/ timeouts'[v] = MapSeq(timeouts[v], Unmounted)]_vars

\* A step of tab v that is start, logAttempt, toggleSet (the branches of
\* handleSetToggle that write), the completion of a hang set, or finish.
SessionOp(v) ==
  \/ \E level \in FormLevels \cup {form[v].level},
        boulderCount \in FormBoulderCounts \cup {form[v].boulderCount} :
       StartVolume(v, level, boulderCount)
  \/ StartTraining(v)
  \/ \E i \in 1..MaxBoulders, result \in AttemptResults, comment \in Comments :
       handleLogAttempt(v, i, result, comment)
  \/ \E k \in 1..4, i \in 1..ProfileSets :
       /\ handleSetToggle(v, Exercises[k], i)
       /\ ~(Exercises[k] = "hang" /\ ~SetsOf(session[v], "hang")[i].completed)
  \/ handleHangComplete(v) /\ timer[v].pendingHangSetId # 0
  \/ handleFinishSession(v) /\ unlogged(session[v]) <= 5
  \/ handleFinishTraining(v) /\ totalCompleted(session[v]) >= totalSets(session[v])
  \/ ConfirmFinish(v)

\* C37: after a start, logAttempt, toggleSet, hang completion or finish that
\* did not throw, the tab's session is the stored session of the same id (as
\* JSON.stringify writes it); after one that threw, the tab's session and
\* page are as they were.
C37_MemoryMatchesStore ==
  [][\A v \in Views :
       SessionOp(v)
         => IF thrown'[v] = "none"
            THEN /\ page'[v] \in {"active", "training", "summary"}
                 /\ StoredRecord(StoredNext, session'[v].id)
                      = StringifySession(session'[v])
            ELSE /\ session'[v] = session[v]
                 /\ page'[v] = page[v]]_vars

\* setItem started to throw while a training session was open with nothing
\* done; an operation on it threw, and every set is still incomplete on
\* screen, as it is in the store.
C37_Witness ==
  \E v \in Views :
    /\ page[v] = "training"
    /\ Rejects
    /\ thrown[v] = SaveError
    /\ \A k \in 1..4 : \A i \in 1..Len(SetsOf(session[v], Exercises[k])) :
         ~SetsOf(session[v], Exercises[k])[i].completed
    /\ StoredRecord(StoredNow, session[v].id) = StringifySession(session[v])
    /\ ~timer[v].showRestTimer

\* What getAllSessions returns for st is every record st holds, in order, or
\* nothing.
AllOrNone(st) ==
  LET read == getAllSessions(st)
      held == IF st.kind = "json" THEN Migrated(st).sessions ELSE <<>>
  IN \/ read = <<>>
     \/ /\ Len(read) = Len(held)
        /\ \A i \in 1..Len(held) : read[i].id = held[i].id

\* C38: getAllSessions returns every session of the stored payload or the
\* empty sequence, never some of them; a session saved after a read that was
\* recovered as empty leaves a stored collection of that session alone.
C38_AllOrNothing ==
  [][/\ AllOrNone(store) /\ AllOrNone(store')
     /\ (nextId' # nextId /\ store' # store /\ getAllSessions(store) = <<>>)
          => (Len(StoredNext) = 1 /\ StoredNext[1].id = nextId)]_vars

\* A session was started over a stored text that was read as empty: the
\* store holds that session and nothing else.
C38_Witness ==
  /\ store.kind = "json"
  /\ Len(StoredNow) = 1
  /\ StoredNow[1].id >= 2
  /\ ~StoredNow[1].isFinished
  /\ \E v \in Views : session[v].id = StoredNow[1].id

\* The timers of tab v that are open.
ActivePhases(v) == {t \in Timers : IsOpen(timer[v], t)}

FormFrom(lastVolume, lastTraining, now) ==
  LET volumeRec == getRecommendation(lastVolume, now)
      trainingRec == getTrainingRecommendation(lastTraining)
  IN [level |-> volumeRec.level, boulderCount |-> volumeRec.boulderCount,
      hangWeight |-> trainingRec.hangWeight,
      pullupWeight |-> trainingRec.pullupWeight,
      benchWeight |-> trainingRec.benchWeight,
      trapBarWeight |-> trainingRec.trapBarWeight]

\* The sessions the step leaves stored and finished, as a reader sees them.
FinishedNext ==
  LET read == getAllSessions(store')
  IN {read[i] : i \in {j \in 1..Len(read) : read[j].isFinished}}

\* C40: whenever StartView computes its recommendations they are those of
\* the most recent finished volume session and the most recent finished
\* training session that the store then holds (the defaults when there is
\* none); sessions that are unfinished or no longer stored have no part.
C40_OnlyFinishedCount ==
  [][\A v \in Views :
       Recomputed(v)
         => \E lastVolume \in {NoSession} \cup FinishedNext,
               lastTraining \in {NoSession} \cup FinishedNext :
              /\ IsLast(lastVolume, getAllSessions(store'), "volume")
              /\ IsLast(lastTraining, getAllSessions(store'), "training")
              /\ form'[v] = FormFrom(lastVolume, lastTraining, clock)]_vars

\* A tab shows the default recommendations on its start page after the only
\* finished session was deleted, while the store holds the session another
\* tab is in the middle of, started with other values than the defaults.
C40_Witness ==
  \E v, w \in Views :
    /\ v # w
    /\ page[v] = "start" /\ sessions[v] = <<>>
    /\ page[w] = "active"
    /\ Len(StoredNow) = 1
    /\ StoredNow[1].id = session[w].id
    /\ ~StoredNow[1].isFinished
    /\ StoredNow[1].boulderCount # DEFAULT_RECOMMENDATION.boulderCount
    /\ form[v].boulderCount = DEFAULT_RECOMMENDATION.boulderCount
    /\ form[v].level = DEFAULT_RECOMMENDATION.level
    /\ \E id \in LegacyIds : id \notin StoredIds

====
